---- MODULE Spec2Model ----
(***************************************************************************)
(* Link shortener (aws-cdk-link-shortener): the rate limiter               *)
(* (lambda/shared/rate-limiter), the create handler (lambda/create), the   *)
(* bulk worker (lambda/bulk) and the redirect handler (lambda/redirect),   *)
(* modelled over the key-value store they share.  Every store request is   *)
(* one atomic step of the store; a handler's local computation between two *)
(* awaits is folded into the step of the store request that precedes it.   *)
(***************************************************************************)
EXTENDS Integers, Sequences, FiniteSets, TLC

VARIABLES
    clock,        \* Date.now(), milliseconds since the start of the run
    ticks,        \* number of times the clock has advanced
    rlTable,      \* rate-limit table: pk -> item
    rlInflight,   \* checkRateLimit calls awaiting dynamodb.send
    rlResults,    \* RateLimitResults returned so far (with the call that got them)
    rlIssued,     \* number of checkRateLimit calls made so far
    rlFailures,   \* number of store calls of the limiter that failed
    links,        \* links table: shortCode -> item
    crActive,     \* create requests being handled, each at its next store call
    crDone,       \* create requests answered, with their responses
    crIssued,     \* number of create requests received so far
    bulkLog,      \* SQS records the bulk worker has processed, with their outcomes
    stFailures,   \* number of store calls of the handlers and workers that failed
    events,       \* analytics table: <<shortCode, timestamp>> -> item
    rdActive,     \* redirect requests being handled
    rdDone,       \* redirect requests answered, with their responses
    rdTasks,      \* side effects a redirect started and did not wait for, with their state
    rdIssued,     \* number of redirect requests received so far
    rlLog,        \* getRateLimitStatus and resetRateLimit calls made, with their outcomes
    anActive,     \* analytics requests being handled
    anDone,       \* analytics requests answered, with their responses
    anIssued,     \* number of analytics requests received so far
    scan,         \* fetchClickEvents runs over logs given by their size only
    apiActive,    \* bulk API requests being handled
    apiDone,      \* bulk API requests answered, with their responses
    jobs,         \* job ids of the records of the bulk jobs table
    queue         \* job ids of the message batches sent to the processing queue

rlVars == <<rlTable, rlInflight, rlResults, rlIssued, rlFailures>>

linkVars == <<links, crActive, crDone, crIssued, bulkLog, stFailures>>

rdVars == <<events, rdActive, rdDone, rdTasks, rdIssued>>

anVars == <<anActive, anDone, anIssued, scan>>

apiVars == <<apiActive, apiDone, jobs, queue>>

vars == <<clock, ticks, rlTable, rlInflight, rlResults, rlIssued, rlFailures,
          links, crActive, crDone, crIssued, bulkLog, stFailures,
          events, rdActive, rdDone, rdTasks, rdIssued,
          rlLog, anActive, anDone, anIssued, scan,
          apiActive, apiDone, jobs, queue>>

\* ------------------------------------------------------------ bounds

MaxCalls == 11
MaxFailures == 1
MaxMixCalls == 3
MaxWindows == 1
MaxCreates == 3
MaxConcurrent == 2
MaxBulk == 2
MaxApiCalls == 2
MaxPathCreates == 1
MaxRedirects == 1
MaxGenCreates == 2
MaxExpiryCreates == 2
MaxResolves == 2
MaxAggregates == 1
MaxClicks == 11
MaxMisses == 2
MaxWindowCalls == 4
MaxAdminCalls == 2
MaxLifetimeTicks == 2
MaxBulkRequests == 3

\* ------------------------------------------------------------ values

\* A table with no items.
EmptyTable == [k \in {} |-> 0]

\* JavaScript's undefined, for an attribute or an optional field that is absent.
Undefined == 0 - 1

Max(a, b) == IF a >= b THEN a ELSE b

\* ------------------------------------------------------------ rate limiter

Roles == {"free", "premium", "admin"}
Actions == {"create", "redirect", "analytics"}

RATE_LIMITS ==
    [free    |-> [create    |-> [requests |-> 10,     window |-> 3600],
                  redirect  |-> [requests |-> 1000,   window |-> 3600],
                  analytics |-> [requests |-> 50,     window |-> 3600]],
     premium |-> [create    |-> [requests |-> 100,    window |-> 3600],
                  redirect  |-> [requests |-> 10000,  window |-> 3600],
                  analytics |-> [requests |-> 500,    window |-> 3600]],
     admin   |-> [create    |-> [requests |-> 1000,   window |-> 3600],
                  redirect  |-> [requests |-> 100000, window |-> 3600],
                  analytics |-> [requests |-> 5000,   window |-> 3600]]]

\* RateLimiter.hashIdentifier: a salted one-way hash, here a tagged value.
hashIdentifier(identifier) == <<"sha256", identifier>>

\* now, windowStart, windowEnd and partitionKey of one call made at time t (ms).
NowSeconds(t) == t \div 1000
WindowStart(now, limit) == now - (now % limit.window)
WindowEnd(now, limit) == WindowStart(now, limit) + limit.window

\* Mutant of PartitionKey: one counter for all windows.
PartitionKeyNoWindow(identifier, action, windowStart) == <<identifier, action, 0>>

\* const partitionKey = `${identifier}:${action}:${windowStart}`
PartitionKey(identifier, action, windowStart) == <<identifier, action, windowStart>>

\* Mutant of RateLimitUpdate: 'SET #count = :increment', an overwrite, not an add.
RateLimitUpdateSet(table, pk, increment, ttl, windowStart, windowEnd) ==
    LET item == [requestCount |-> increment, ttl |-> ttl,
                 windowStart |-> windowStart, windowEnd |-> windowEnd]
    IN  [k \in DOMAIN table \cup {pk} |-> IF k = pk THEN item ELSE table[k]]

\* The store's UpdateItem with 'ADD #count :increment SET #ttl, #windowStart,
\* #windowEnd': one atomic step; ADD on a missing item or attribute starts from 0.
RateLimitUpdate(table, pk, increment, ttl, windowStart, windowEnd) ==
    LET old == IF pk \in DOMAIN table THEN table[pk].requestCount ELSE 0
        item == [requestCount |-> old + increment, ttl |-> ttl,
                 windowStart |-> windowStart, windowEnd |-> windowEnd]
    IN  [k \in DOMAIN table \cup {pk} |-> IF k = pk THEN item ELSE table[k]]

\* updateResult.Attributes of a response that carries none.
NoAttributes ==
    [requestCount |-> Undefined, ttl |-> Undefined,
     windowStart |-> Undefined, windowEnd |-> Undefined]

\* Mutant of CurrentCount: reads an attribute the item does not have.
CurrentCountMissing(item) == 0

\* const currentCount = item?.requestCount || 0
CurrentCount(item) ==
    IF item.requestCount = Undefined THEN 0 ELSE item.requestCount

\* Mutant of Allowed: the strict comparison of getRateLimitStatus.
AllowedStrict(currentCount, limit) == currentCount < limit.requests

\* const allowed = currentCount <= limit.requests
Allowed(currentCount, limit) == currentCount <= limit.requests

\* const remaining = Math.max(0, limit.requests - currentCount)
Remaining(currentCount, limit) == Max(0, limit.requests - currentCount)

\* The RateLimitResult of a call whose UpdateItem returned Attributes.
CheckResult(call) ==
    LET limit == RATE_LIMITS[call.userRole][call.action]
        currentCount == CurrentCount(call.Attributes)
        allowed == Allowed(currentCount, limit)
        resetTime == WindowEnd(call.now, limit)
    IN  [allowed |-> allowed,
         remaining |-> Remaining(currentCount, limit),
         resetTime |-> resetTime,
         retryAfter |-> IF ~allowed THEN resetTime - call.now ELSE Undefined]

\* Mutant of FailOpenResult: fail closed.
FailClosedResult(call) ==
    LET limit == RATE_LIMITS[call.userRole][call.action]
    IN  [allowed |-> FALSE,
         remaining |-> 0,
         resetTime |-> WindowEnd(call.now, limit),
         retryAfter |-> WindowEnd(call.now, limit) - call.now]

\* The catch branch of checkRateLimit: fail open.
FailOpenResult(call) ==
    LET limit == RATE_LIMITS[call.userRole][call.action]
    IN  [allowed |-> TRUE,
         remaining |-> limit.requests,
         resetTime |-> WindowEnd(call.now, limit),
         retryAfter |-> Undefined]

\* checkRateLimit up to its await, as it acts on the limiter's state: the store
\* applies the UpdateItem and the response (ALL_NEW) is on its way back.
RLSendUpdate(identifier, action, userRole, increment) ==
    LET limit == RATE_LIMITS[userRole][action]
        now == NowSeconds(clock)
        windowStart == WindowStart(now, limit)
        windowEnd == WindowEnd(now, limit)
        pk == PartitionKey(identifier, action, windowStart)
        table == RateLimitUpdate(rlTable, pk, increment, windowEnd + 86400,
                                 windowStart, windowEnd)
    IN  /\ rlTable' = table
        /\ rlInflight' = rlInflight \cup
              {[seq |-> rlIssued + 1, identifier |-> identifier, action |-> action,
                userRole |-> userRole, increment |-> increment, now |-> now,
                pk |-> pk, failed |-> FALSE, Attributes |-> table[pk],
                afterAll |-> rlInflight = {}]}
        /\ rlIssued' = rlIssued + 1
        /\ UNCHANGED <<rlResults, rlFailures>>

\* checkRateLimit called from a handler that changes nothing else in the step.
RLSend(identifier, action, userRole, increment) ==
    /\ RLSendUpdate(identifier, action, userRole, increment)
    /\ UNCHANGED <<clock, ticks, linkVars, rdVars, anVars, rlLog, apiVars>>

\* checkRateLimit whose dynamodb.send rejects, as it acts on the limiter's
\* state: the update is not applied.
RLSendRejected(identifier, action, userRole, increment) ==
    LET limit == RATE_LIMITS[userRole][action]
        now == NowSeconds(clock)
        pk == PartitionKey(identifier, action, WindowStart(now, limit))
    IN  /\ rlFailures < MaxFailures
        /\ rlInflight' = rlInflight \cup
              {[seq |-> rlIssued + 1, identifier |-> identifier, action |-> action,
                userRole |-> userRole, increment |-> increment, now |-> now,
                pk |-> pk, failed |-> TRUE, Attributes |-> NoAttributes,
                afterAll |-> rlInflight = {}]}
        /\ rlIssued' = rlIssued + 1
        /\ rlFailures' = rlFailures + 1
        /\ UNCHANGED <<rlTable, rlResults>>

RLSendFail(identifier, action, userRole, increment) ==
    /\ RLSendRejected(identifier, action, userRole, increment)
    /\ UNCHANGED <<clock, ticks, linkVars, rdVars, anVars, rlLog, apiVars>>

\* const limit = RATE_LIMITS[userRole][action], the statement before the try of
\* checkRateLimit: reading a property of undefined raises a TypeError, so for a
\* role that is no key of RATE_LIMITS the call raises and no store call is made.
RLRaise(identifier, action, userRole, increment) ==
    /\ rlResults' = rlResults \cup
          {[call |-> [seq |-> rlIssued + 1, identifier |-> identifier,
                      action |-> action, userRole |-> userRole,
                      increment |-> increment, now |-> NowSeconds(clock)],
            threw |-> TRUE]}
    /\ rlIssued' = rlIssued + 1
    /\ UNCHANGED <<rlTable, rlInflight, rlFailures>>

\* RATE_LIMITS[userRole] is defined.
KnownRole(userRole) == userRole \in DOMAIN RATE_LIMITS

\* checkRateLimit up to its await or its raise, for any role.
checkRateLimit(identifier, action, userRole, increment) ==
    IF KnownRole(userRole)
    THEN \/ RLSendUpdate(identifier, action, userRole, increment)
         \/ RLSendRejected(identifier, action, userRole, increment)
    ELSE RLRaise(identifier, action, userRole, increment)

\* checkRateLimit after its await: the result (or the fail-open result) is returned.
RLReturn ==
    \E call \in rlInflight :
        /\ rlInflight' = rlInflight \ {call}
        /\ rlResults' = rlResults \cup
              {[call |-> call, threw |-> FALSE,
                result |-> IF call.failed THEN FailOpenResult(call)
                           ELSE CheckResult(call)]}
        /\ UNCHANGED <<clock, ticks, rlTable, rlIssued, rlFailures, linkVars, rdVars, anVars, rlLog, apiVars>>

\* Mutant of StatusAllowed: the comparison of checkRateLimit.
StatusAllowedInclusive(currentCount, limit) == currentCount <= limit.requests

\* getRateLimitStatus: const allowed = currentCount < limit.requests
StatusAllowed(currentCount, limit) == currentCount < limit.requests

\* result.Item of a GetItem: the item under pk, or none.
GetItem(table, pk) == IF pk \in DOMAIN table THEN table[pk] ELSE NoAttributes

\* The RateLimitResult getRateLimitStatus returns when its GetItem has answered.
StatusResult(item, limit, now) ==
    LET currentCount == CurrentCount(item)
        allowed == StatusAllowed(currentCount, limit)
    IN  [allowed |-> allowed,
         remaining |-> Remaining(currentCount, limit),
         resetTime |-> WindowEnd(now, limit),
         retryAfter |-> IF allowed THEN Undefined ELSE WindowEnd(now, limit) - now]

\* The catch branch of getRateLimitStatus: 'Return optimistic values on error'.
StatusOptimistic(limit, now) ==
    [allowed |-> TRUE,
     remaining |-> limit.requests,
     resetTime |-> WindowEnd(now, limit),
     retryAfter |-> Undefined]

\* The outcomes of one store call of getRateLimitStatus or resetRateLimit.
RLOutcomes == IF rlFailures < MaxFailures THEN {"ok", "error"} ELSE {"ok"}

\* getRateLimitStatus: one GetItem, and the result computed from its answer.
RLStatus(identifier, action, userRole) ==
    LET limit == RATE_LIMITS[userRole][action]
        now == NowSeconds(clock)
        pk == PartitionKey(identifier, action, WindowStart(now, limit))
        item == GetItem(rlTable, pk)
    IN  \E outcome \in RLOutcomes :
            /\ rlLog' = rlLog \cup
                  {[seq |-> Cardinality(rlLog) + 1, op |-> "status",
                    identifier |-> identifier, action |-> action,
                    userRole |-> userRole, now |-> now, pk |-> pk,
                    failed |-> outcome = "error", threw |-> FALSE,
                    result |-> IF outcome = "error"
                               THEN StatusOptimistic(limit, now)
                               ELSE StatusResult(item, limit, now)]}
            /\ rlFailures' = IF outcome = "error" THEN rlFailures + 1 ELSE rlFailures
            /\ UNCHANGED <<clock, ticks, rlTable, rlInflight, rlResults, rlIssued,
                           linkVars, rdVars, anVars, apiVars>>

\* Mutant of ResetUpdate: every counter of the table is set to zero.
ResetUpdateAll(table, pk) ==
    [k \in DOMAIN table \cup {pk} |->
        IF k \in DOMAIN table THEN [table[k] EXCEPT !.requestCount = 0]
        ELSE [NoAttributes EXCEPT !.requestCount = 0]]

\* The store's UpdateItem with 'SET #count = :zero': the item's other attributes
\* stay, and a missing item is created with the count alone.
ResetUpdate(table, pk) ==
    [k \in DOMAIN table \cup {pk} |->
        IF k # pk THEN table[k]
        ELSE IF pk \in DOMAIN table THEN [table[pk] EXCEPT !.requestCount = 0]
        ELSE [NoAttributes EXCEPT !.requestCount = 0]]

\* const windowStart = now - (now % 3600): resetRateLimit's 'hourly window'.
HourlyWindowStart(now) == now - (now % 3600)

\* resetRateLimit: one UpdateItem; a store error is logged and thrown again.
RLReset(identifier, action) ==
    LET now == NowSeconds(clock)
        pk == PartitionKey(identifier, action, HourlyWindowStart(now))
    IN  \E outcome \in RLOutcomes :
            /\ rlTable' = IF outcome = "error" THEN rlTable
                          ELSE ResetUpdate(rlTable, pk)
            /\ rlLog' = rlLog \cup
                  {[seq |-> Cardinality(rlLog) + 1, op |-> "reset",
                    identifier |-> identifier, action |-> action,
                    now |-> now, pk |-> pk,
                    failed |-> outcome = "error", threw |-> outcome = "error"]}
            /\ rlFailures' = IF outcome = "error" THEN rlFailures + 1 ELSE rlFailures
            /\ UNCHANGED <<clock, ticks, rlInflight, rlResults, rlIssued,
                           linkVars, rdVars, anVars, apiVars>>

\* withRateLimit: the identifier is hashed, then checkRateLimit is called.
withRateLimit(identifier, action, userRole, increment) ==
    RLSend(hashIdentifier(identifier), action, userRole, increment)

\* An identifier used in a key as it was given, unhashed.
Raw(identifier) == <<"raw", identifier>>

\* ------------------------------------------------------------ strings

\* A string is the sequence of its characters.
LowerCase ==
    <<"a","b","c","d","e","f","g","h","i","j","k","l",
      "m","n","o","p","q","r","s","t","u","v","w","x","y","z">>
UpperCase ==
    <<"A","B","C","D","E","F","G","H","I","J","K","L",
      "M","N","O","P","Q","R","S","T","U","V","W","X","Y","Z">>
Digits == {"0","1","2","3","4","5","6","7","8","9"}

Range(s) == {s[i] : i \in DOMAIN s}

\* String.prototype.toLowerCase
ToLowerChar(ch) ==
    IF \E i \in DOMAIN UpperCase : UpperCase[i] = ch
    THEN LowerCase[CHOOSE i \in DOMAIN UpperCase : UpperCase[i] = ch]
    ELSE ch
toLowerCase(s) == [i \in DOMAIN s |-> ToLowerChar(s[i])]

\* ------------------------------------------------------------ validation

\* /^[a-zA-Z0-9-_]{3,20}$/
CodePatternOK(code) ==
    /\ Len(code) >= 3
    /\ Len(code) <= 20
    /\ Range(code) \subseteq Range(LowerCase) \cup Range(UpperCase) \cup Digits \cup {"-", "_"}

\* The reserved words of the shared ShortCodeSchema.
reservedWords ==
    {<<"a","p","i">>, <<"w","w","w">>, <<"a","d","m","i","n">>,
     <<"r","o","o","t">>, <<"h","e","l","p">>, <<"s","u","p","p","o","r","t">>,
     <<"c","o","n","t","a","c","t">>, <<"a","b","o","u","t">>, <<"t","e","r","m","s">>,
     <<"p","r","i","v","a","c","y">>, <<"l","o","g","i","n">>, <<"s","i","g","n","u","p">>,
     <<"a","u","t","h">>, <<"h","e","a","l","t","h">>, <<"s","t","a","t","u","s">>,
     <<"m","e","t","r","i","c","s">>, <<"a","n","a","l","y","t","i","c","s">>, <<"d","a","s","h","b","o","a","r","d">>,
     <<"d","o","c","s">>, <<"d","o","c","u","m","e","n","t","a","t","i","o","n">>, <<"b","l","o","g">>,
     <<"n","e","w","s">>, <<"s","t","a","t","i","c">>, <<"a","s","s","e","t","s">>,
     <<"p","u","b","l","i","c">>, <<"p","r","i","v","a","t","e">>, <<"t","e","s","t">>,
     <<"s","t","a","g","i","n","g">>, <<"d","e","v">>, <<"p","r","o","d">>,
     <<"n","u","l","l">>, <<"u","n","d","e","f","i","n","e","d">>, <<"t","r","u","e">>,
     <<"f","a","l","s","e">>, <<"d","e","l","e","t","e">>, <<"r","e","m","o","v","e">>}

\* The refinement of the shared ShortCodeSchema: not a reserved word, whatever the case.
NotReserved(code) == toLowerCase(code) \notin reservedWords

\* ShortCodeSchema of lambda/shared/validation: the pattern and the reserved words.
ShortCodeSchemaOK(code) == CodePatternOK(code) /\ NotReserved(code)

\* The absent customCode and the absent expiresIn of a request body.
NoCode == <<>>
NoExpiry == 0

\* The URLs requests carry; those the url schema of the handler accepts
\* (well-formed, 10 to 2048 characters, http:// or https://).
UrlA == "https://example.com"
UrlB == "https://example.org/page"
UrlBad == "not-a-url"
ValidUrls == {UrlA, UrlB}
UrlSchemaOK(url) == url \in ValidUrls

\* expiresIn: z.number().min(3600).max(31536000).optional()
ExpiresInOK(expiresIn) ==
    expiresIn = NoExpiry \/ (expiresIn >= 3600 /\ expiresIn <= 31536000)

\* CreateLinkSchema of lambda/create/index.ts, the schema the create handler parses
\* with: customCode is checked against the pattern only.
CreateLinkSchemaOK(body) ==
    /\ UrlSchemaOK(body.url)
    /\ (body.customCode # NoCode => CodePatternOK(body.customCode))
    /\ ExpiresInOK(body.expiresIn)

\* ------------------------------------------------------------ links table

\* createUrlHash: sha256 of the URL, here a tagged value.
createUrlHash(url) == <<"sha256", url>>

\* new Date(t).toISOString()
toISOString(t) == <<"ISO", t>>

\* generateShortCode (customAlphabet of 57 symbols, 8 characters) and
\* ValidationHelper.generateSafeId(8): the codes the generator may draw.
GenCodes ==
    {<<"2","3","4","5","6","7","8","9">>, <<"A","b","C","d","E","f","G","h">>}

\* OriginalUrlIndex: partition key originalUrlHash, projection KEYS_ONLY. An item
\* is in the index when it has the index key; a query returns the index key and
\* the table key of the item, nothing else.
InIndex(hash) ==
    {c \in DOMAIN links :
        "originalUrlHash" \in DOMAIN links[c] /\ links[c].originalUrlHash = hash}
IndexProjection(item) ==
    [f \in {"shortCode", "originalUrlHash"} |-> item[f]]

\* findExistingLink, after the query: the item of Items[0] if it is not expired.
NotExpired(item, now) ==
    "expiresAt" \notin DOMAIN item \/ item.expiresAt > now

\* PutItem with ConditionExpression attribute_not_exists(shortCode).
PutIfAbsent(table, item) ==
    [c \in DOMAIN table \cup {item.shortCode} |->
        IF c = item.shortCode THEN item ELSE table[c]]
ConditionHoldsAlways(table, item) == TRUE
ConditionHolds(table, item) == item.shortCode \notin DOMAIN table

\* Whether the next store call fails: it may while failures are left to inject.
StoreOutcomes == IF stFailures < MaxFailures THEN {"ok", "error"} ELSE {"ok"}
CountFailure(outcome) ==
    stFailures' = IF outcome = "error" THEN stFailures + 1 ELSE stFailures

\* ------------------------------------------------------------ create handler

maxAttemptsMore == 5 + 1
maxAttempts == 5

\* createSuccessResponse and createErrorResponse, reduced to what callers observe.
SuccessResponse(shortCode, created) ==
    [statusCode |-> 201, created |-> created, shortCode |-> shortCode]
ErrorResponse(statusCode) ==
    [statusCode |-> statusCode, created |-> FALSE, shortCode |-> NoCode]

\* The response for an existing link: createdAt goes through
\* new Date(existingLink.createdAt).toISOString(), which throws a RangeError on a
\* missing createdAt; the handler's catch turns it into a 500.
ExistingLinkResponse(existingLink) ==
    IF "createdAt" \in DOMAIN existingLink
    THEN SuccessResponse(existingLink.shortCode, FALSE)
    ELSE ErrorResponse(500)

\* const linkItem: LinkItem = {...} (userId and metadata left out: nothing reads them)
LinkItem(shortCode, body, isCustom, now) ==
    LET item == [shortCode |-> shortCode,
                 originalUrl |-> body.url,
                 originalUrlHash |-> createUrlHash(body.url),
                 createdAt |-> now,
                 clickCount |-> 0,
                 isCustom |-> isCustom]
    IN  IF body.expiresIn # NoExpiry
        THEN item @@ [expiresAt |-> now + body.expiresIn * 1000]
        ELSE item

\* The row of the limiter that counts the caller's requests of one kind in the
\* window of time t, as bulk's apiHandler keys it for an anonymous caller.
QuotaRow(sourceIp, action, t) ==
    PartitionKey(hashIdentifier(sourceIp), action,
                 WindowStart(NowSeconds(t), RATE_LIMITS["free"][action]))

\* The caller has used up the quota: a check now would be rejected.
OverQuota(sourceIp, action, t) ==
    /\ QuotaRow(sourceIp, action, t) \in DOMAIN rlTable
    /\ rlTable[QuotaRow(sourceIp, action, t)].requestCount
           >= RATE_LIMITS["free"][action].requests

\* The request req leaves the handler, as record r, with a response.
Answer(req, r, response) ==
    /\ crActive' = crActive \ {req}
    /\ crDone' = crDone \cup {[r EXCEPT !.pc = "done"] @@ [response |-> response]}

\* The request goes on to its next store call.
Continue(req, next) ==
    /\ crActive' = (crActive \ {req}) \cup {next}
    /\ crDone' = crDone

\* handler, up to the first store call: the body is parsed and validated.
CreateReceive(body, sourceIp) ==
    LET req == [id |-> crIssued + 1, body |-> body, sourceIp |-> sourceIp,
                pc |-> "lookup", attempt |-> 0, item |-> EmptyTable,
                storeCalls |-> 0, wrote |-> FALSE, failed |-> FALSE,
                conditionFailed |-> FALSE,
                receivedAt |-> clock,
                doneBefore |-> {d.id : d \in crDone},
                codeFree |-> body.customCode \notin DOMAIN links,
                urlLinked |-> InIndex(createUrlHash(body.url)) # {},
                overQuota |-> OverQuota(sourceIp, "create", clock)]
    IN  /\ crIssued' = crIssued + 1
        /\ IF CreateLinkSchemaOK(body)
           THEN /\ crActive' = crActive \cup {req}
                /\ crDone' = crDone
           ELSE /\ crActive' = crActive
                /\ crDone' = crDone \cup
                      {[req EXCEPT !.pc = "done"] @@ [response |-> ErrorResponse(400)]}
        /\ UNCHANGED <<clock, ticks, rlVars, rdVars, anVars, rlLog, apiVars, links, bulkLog, stFailures>>

\* findExistingLink and what follows it up to the next store call.
CreateLookup(req) ==
    /\ req.pc = "lookup"
    /\ \E outcome \in StoreOutcomes :
        LET r == [req EXCEPT !.storeCalls = @ + 1,
                             !.failed = @ \/ outcome = "error"]
            found == InIndex(createUrlHash(req.body.url))
            \* catch: return null; no Items: return null
            Miss == Continue(req, [r EXCEPT !.pc = IF req.body.customCode # NoCode
                                                   THEN "probeCustom" ELSE "probeGen"])
        IN  /\ CountFailure(outcome)
            /\ IF outcome = "error" \/ found = {}
               THEN Miss
               ELSE \E c \in found :                       \* Limit: 1
                      LET item == IndexProjection(links[c])
                      IN  IF NotExpired(item, clock)
                          THEN Answer(req, r, ExistingLinkResponse(item))
                          ELSE Miss
    /\ UNCHANGED <<clock, ticks, rlVars, rdVars, anVars, rlLog, apiVars, links, crIssued, bulkLog>>

\* checkShortCodeExists: GetItem; a store error counts as "exists".
ShortCodeExists(shortCode, outcome) ==
    outcome = "error" \/ shortCode \in DOMAIN links

\* The custom code branch: checkShortCodeExists(customCode), then the link item.
CreateProbeCustom(req) ==
    /\ req.pc = "probeCustom"
    /\ \E outcome \in StoreOutcomes :
        LET r == [req EXCEPT !.storeCalls = @ + 1,
                             !.failed = @ \/ outcome = "error"]
        IN  /\ CountFailure(outcome)
            /\ IF ShortCodeExists(req.body.customCode, outcome)
               THEN Answer(req, r, ErrorResponse(409))
               ELSE Continue(req, [r EXCEPT
                        !.pc = "put",
                        !.item = LinkItem(req.body.customCode, req.body, TRUE, clock)])
    /\ UNCHANGED <<clock, ticks, rlVars, rdVars, anVars, rlLog, apiVars, links, crIssued, bulkLog>>

\* One iteration of generateUniqueShortCode: a code is drawn and probed.
CreateProbeGen(req) ==
    /\ req.pc = "probeGen"
    /\ \E outcome \in StoreOutcomes, shortCode \in GenCodes :
        LET r == [req EXCEPT !.storeCalls = @ + 1,
                             !.failed = @ \/ outcome = "error"]
        IN  /\ CountFailure(outcome)
            /\ IF ~ShortCodeExists(shortCode, outcome)
               THEN Continue(req, [r EXCEPT
                        !.pc = "put",
                        !.item = LinkItem(shortCode, req.body, FALSE, clock)])
               ELSE IF req.attempt + 1 < maxAttempts
               THEN Continue(req, [r EXCEPT !.attempt = @ + 1])
               ELSE Answer(req, [r EXCEPT !.attempt = @ + 1], ErrorResponse(500))
    /\ UNCHANGED <<clock, ticks, rlVars, rdVars, anVars, rlLog, apiVars, links, crIssued, bulkLog>>

\* The conditional PutItem and the response.
CreatePut(req) ==
    /\ req.pc = "put"
    /\ \E outcome \in StoreOutcomes :
        LET r == [req EXCEPT !.storeCalls = @ + 1,
                             !.failed = @ \/ outcome = "error"]
        IN  /\ CountFailure(outcome)
            /\ IF outcome = "error"
               THEN /\ links' = links
                    /\ Answer(req, r, ErrorResponse(500))
               ELSE IF ~ConditionHolds(links, req.item)
               THEN /\ links' = links       \* ConditionalCheckFailedException
                    /\ Answer(req, [r EXCEPT !.conditionFailed = TRUE], ErrorResponse(409))
               ELSE /\ links' = PutIfAbsent(links, req.item)
                    /\ Answer(req, [r EXCEPT !.wrote = TRUE],
                              SuccessResponse(req.item.shortCode, TRUE))
    /\ UNCHANGED <<clock, ticks, rlVars, rdVars, anVars, rlLog, apiVars, crIssued, bulkLog>>

\* ------------------------------------------------------------ bulk worker

\* sqsHandler, one record: the link item is put under the custom code or a
\* generated one; any error is handed to updateJobProgress, which only logs.
BulkRecord(message) ==
    \E outcome \in StoreOutcomes,
       shortCode \in (IF message.customCode # NoCode
                      THEN {message.customCode} ELSE GenCodes) :
        LET item == [shortCode |-> shortCode,
                     originalUrl |-> message.url,
                     userId |-> message.userId,
                     createdAt |-> toISOString(clock),
                     clickCount |-> 0,
                     isActive |-> TRUE]
            written == outcome = "ok" /\ ConditionHolds(links, item)
        IN  /\ CountFailure(outcome)
            /\ links' = IF written THEN PutIfAbsent(links, item) ELSE links
            /\ bulkLog' = bulkLog \cup
                  {[seq |-> Cardinality(bulkLog) + 1, message |-> message,
                    shortCode |-> shortCode, success |-> written,
                    failed |-> outcome = "error"]}
            /\ UNCHANGED <<clock, ticks, rlVars, rdVars, anVars, rlLog, apiVars, crActive, crDone, crIssued>>

\* ------------------------------------------------------------ redirect handler

\* PutItem into the analytics table (key: shortCode, timestamp), no condition.
PutEventDropped(table, item) == table
PutEvent(table, item) ==
    [k \in DOMAIN table \cup {<<item.shortCode, item.timestamp>>} |->
        IF k = <<item.shortCode, item.timestamp>> THEN item ELSE table[k]]

\* trackAnalytics up to its PutItem: const timestamp = Date.now() and the item.
AnalyticsItem(shortCode, eventType, now) ==
    [shortCode |-> shortCode, timestamp |-> now, eventType |-> eventType]

\* Mutant of ClickUpdate: 'SET clickCount = :inc', an overwrite, not an add.
ClickUpdateOverwrite(table, shortCode, timestamp) ==
    [c \in DOMAIN table \cup {shortCode} |->
        IF c # shortCode THEN table[c]
        ELSE IF c \in DOMAIN table
        THEN [f \in DOMAIN table[c] \cup {"lastClickAt"} |->
                IF f = "clickCount" THEN 1
                ELSE IF f = "lastClickAt" THEN timestamp
                ELSE table[c][f]]
        ELSE [shortCode |-> shortCode, clickCount |-> 1, lastClickAt |-> timestamp]]

\* Mutant of ClickUpdate: the update stamps createdAt as well.
ClickUpdateStamped(table, shortCode, timestamp) ==
    [c \in DOMAIN table \cup {shortCode} |->
        IF c # shortCode THEN table[c]
        ELSE IF c \in DOMAIN table
        THEN [f \in DOMAIN table[c] \cup {"lastClickAt"} |->
                IF f = "clickCount" THEN table[c].clickCount + 1
                ELSE IF f \in {"lastClickAt", "createdAt"} THEN timestamp
                ELSE table[c][f]]
        ELSE [shortCode |-> shortCode, clickCount |-> 1, lastClickAt |-> timestamp]]

\* UpdateItem 'ADD clickCount :inc SET lastClickAt = :timestamp'; an absent item
\* is created by the update.
ClickUpdate(table, shortCode, timestamp) ==
    [c \in DOMAIN table \cup {shortCode} |->
        IF c # shortCode THEN table[c]
        ELSE IF c \in DOMAIN table
        THEN [f \in DOMAIN table[c] \cup {"lastClickAt"} |->
                IF f = "clickCount" THEN table[c].clickCount + 1
                ELSE IF f = "lastClickAt" THEN timestamp
                ELSE table[c][f]]
        ELSE [shortCode |-> shortCode, clickCount |-> 1, lastClickAt |-> timestamp]]

ExpiredNever(linkItem, now) == FALSE
ExpiredAlways(linkItem, now) == TRUE
\* linkItem.expiresAt && Date.now() > linkItem.expiresAt
Expired(linkItem, now) ==
    /\ "expiresAt" \in DOMAIN linkItem
    /\ linkItem.expiresAt # 0
    /\ now > linkItem.expiresAt

RedirectAnswer(req, r, statusCode, location) ==
    /\ rdActive' = rdActive \ {req}
    /\ rdDone' = rdDone \cup
          {[r EXCEPT !.pc = "done"]
              @@ [response |-> [statusCode |-> statusCode, Location |-> location]]}

NoLocation == ""

\* handler, up to the GetItem: a request without a short code is answered 400.
RedirectReceive(shortCode, sourceIp) ==
    LET req == [id |-> rdIssued + 1, shortCode |-> shortCode, sourceIp |-> sourceIp,
                pc |-> "get", storeCalls |-> 0, recorded |-> FALSE,
                eventType |-> "", timestamp |-> Undefined,
                lookupFailed |-> FALSE, linkState |-> "",
                receivedAt |-> clock,
                overQuota |-> OverQuota(sourceIp, "redirect", clock)]
    IN  /\ rdIssued' = rdIssued + 1
        /\ IF shortCode # NoCode
           THEN /\ rdActive' = rdActive \cup {req}
                /\ rdDone' = rdDone
           ELSE /\ rdActive' = rdActive
                /\ rdDone' = rdDone \cup
                      {[req EXCEPT !.pc = "done"]
                          @@ [response |-> [statusCode |-> 400, Location |-> NoLocation]]}
        /\ UNCHANGED <<clock, ticks, rlVars, linkVars, events, rdTasks, anVars, rlLog, apiVars>>

\* What the links table holds for a short code at time now: no link, a link
\* whose expiresAt is in the past, or a link that is live.
LinkState(shortCode, now) ==
    IF shortCode \notin DOMAIN links THEN "absent"
    ELSE IF "expiresAt" \in DOMAIN links[shortCode] /\ links[shortCode].expiresAt < now
    THEN "expired"
    ELSE "live"

\* The GetItem threw: the handler's catch answers 500.
LookupFailedNever(outcome) == FALSE
LookupFailed(outcome) == outcome = "error"

\* Promise.all([trackAnalytics(...), updateClickCount(shortCode)]), which the
\* handler does not await: both calls are started, each stamped with the time of
\* the call, and neither has reached the store when the handler goes on.
SideEffectsAwaited(req, now) ==
    {[id |-> req.id, kind |-> kind, state |-> "ok",
      shortCode |-> req.shortCode, timestamp |-> now] :
        kind \in {"trackAnalytics", "updateClickCount"}}
SideEffects(req, now) ==
    {[id |-> req.id, kind |-> kind, state |-> "pending",
      shortCode |-> req.shortCode, timestamp |-> now] :
        kind \in {"trackAnalytics", "updateClickCount"}}

\* The GetItem and the branch it selects. A missing or expired link goes on to
\* an awaited trackAnalytics; a live link is answered 301 at once, with
\* trackAnalytics and updateClickCount started and not awaited.
RedirectGet(req) ==
    /\ req.pc = "get"
    /\ \E outcome \in StoreOutcomes :
        LET r == [req EXCEPT !.storeCalls = @ + 1,
                             !.lookupFailed = outcome = "error",
                             !.linkState = LinkState(req.shortCode, clock)]
        IN  /\ CountFailure(outcome)
            /\ IF LookupFailed(outcome)
               THEN /\ RedirectAnswer(req, r, 500, NoLocation)
                    /\ rdTasks' = rdTasks
               ELSE IF req.shortCode \notin DOMAIN links
               THEN /\ rdActive' = (rdActive \ {req}) \cup
                          {[r EXCEPT !.pc = "track", !.eventType = "NOT_FOUND",
                                     !.timestamp = clock]}
                    /\ UNCHANGED <<rdDone, rdTasks>>
               ELSE IF Expired(links[req.shortCode], clock)
               THEN /\ rdActive' = (rdActive \ {req}) \cup
                          {[r EXCEPT !.pc = "track", !.eventType = "EXPIRED",
                                     !.timestamp = clock]}
                    /\ UNCHANGED <<rdDone, rdTasks>>
               ELSE /\ RedirectAnswer(req, r, 301, links[req.shortCode].originalUrl)
                    /\ rdTasks' = rdTasks \cup SideEffects(req, clock)
    /\ UNCHANGED <<clock, ticks, rlVars, links, crActive, crDone, crIssued, bulkLog,
                   events, rdIssued, anVars, rlLog, apiVars>>

\* The awaited trackAnalytics of a 404 or a 410, then the response; an error of
\* the PutItem is logged and not propagated.
RedirectTrack(req) ==
    /\ req.pc = "track"
    /\ \E outcome \in StoreOutcomes :
        LET r == [req EXCEPT !.storeCalls = @ + 1, !.recorded = outcome = "ok"]
        IN  /\ CountFailure(outcome)
            /\ events' = IF outcome = "ok"
                         THEN PutEvent(events,
                                AnalyticsItem(req.shortCode, req.eventType, req.timestamp))
                         ELSE events
            /\ RedirectAnswer(req, r, IF req.eventType = "NOT_FOUND" THEN 404 ELSE 410,
                              NoLocation)
    /\ UNCHANGED <<clock, ticks, rlVars, links, crActive, crDone, crIssued, bulkLog,
                   rdTasks, rdIssued, anVars, rlLog, apiVars>>

\* The store call of a side effect succeeds or fails; each side effect makes one.
SideEffectOutcomes == {"ok", "error"}

\* One of the side effects a 301 left running reaches the store; its error is
\* logged and not propagated.
RedirectTask(task) ==
    /\ task \in rdTasks
    /\ task.state = "pending"
    /\ \E outcome \in SideEffectOutcomes :
        /\ rdTasks' = (rdTasks \ {task}) \cup {[task EXCEPT !.state = outcome]}
        /\ stFailures' = stFailures
        /\ IF outcome = "error"
           THEN UNCHANGED <<events, links>>
           ELSE IF task.kind = "trackAnalytics"
           THEN /\ events' = PutEvent(events,
                                AnalyticsItem(task.shortCode, "SUCCESS", task.timestamp))
                /\ links' = links
           ELSE /\ links' = ClickUpdate(links, task.shortCode, task.timestamp)
                /\ events' = events
    /\ UNCHANGED <<clock, ticks, rlVars, crActive, crDone, crIssued, bulkLog,
                   rdActive, rdDone, rdIssued, anVars, rlLog, apiVars>>

\* ------------------------------------------------------------ click events

\* hashIP: a salted one-way hash, here a tagged value.
hashIP(ip) == <<"sha256", ip>>

\* A Referer header: none ('direct' is stored), or a URL with a host and a path.
Direct == <<"direct", 0, 0>>
RefererUrl(host, path) == <<"https:", host, path>>

\* analyticsItem of trackAnalytics in full: the fields the aggregator reads. The
\* country is the placeholder of getCountryFromIP.
ClickEvent(shortCode, eventType, timestamp, visitor) ==
    [shortCode |-> shortCode, timestamp |-> timestamp, eventType |-> eventType,
     ipHash |-> hashIP(visitor.ip), referer |-> visitor.referer,
     country |-> "US", browser |-> visitor.browser,
     browserVersion |-> visitor.browserVersion, device |-> visitor.device]

\* ------------------------------------------------------------ analytics aggregator

\* Limit: 1000 of the Query
Limit == 1000

\* if (events.length > 10000): the loop is left
TooManyEvents(length) == length > 10000

\* while (lastEvaluatedKey), reached only if the loop was not left before
FetchContinues(length, lastEvaluatedKey) ==
    ~TooManyEvents(length) /\ lastEvaluatedKey # Undefined

\* calculateTimeRange
PeriodMs(period) ==
    CASE period = "1h"  -> 60 * 60 * 1000
      [] period = "24h" -> 24 * 60 * 60 * 1000
      [] period = "7d"  -> 7 * 24 * 60 * 60 * 1000
      [] period = "30d" -> 30 * 24 * 60 * 60 * 1000
      [] OTHER          -> 24 * 60 * 60 * 1000
calculateTimeRange(period, now) ==
    [startTime |-> now - PeriodMs(period), endTime |-> now]

\* Mutant of KeysToEvaluate: ExclusiveStartKey is ignored.
KeysFromTheStart(shortCode, timeRange, lastEvaluatedKey) ==
    {k \in DOMAIN events :
        /\ k[1] = shortCode
        /\ k[2] >= timeRange.startTime
        /\ k[2] <= timeRange.endTime}

\* The keys the Query has still to evaluate: shortCode = :shortCode AND timestamp
\* BETWEEN :startTime AND :endTime, after ExclusiveStartKey.
KeysToEvaluate(shortCode, timeRange, lastEvaluatedKey) ==
    {k \in DOMAIN events :
        /\ k[1] = shortCode
        /\ k[2] >= timeRange.startTime
        /\ k[2] <= timeRange.endTime
        /\ (lastEvaluatedKey = Undefined \/ k[2] > lastEvaluatedKey)}

\* Timestamps in ascending order, the order of the sort key.
Ascending(T) ==
    [i \in 1..Cardinality(T) |->
        CHOOSE t \in T : Cardinality({u \in T : u < t}) = i - 1]

\* FilterExpression: none for 'all', eventType = SUCCESS for 'success',
\* eventType <> SUCCESS for 'failures'. The store applies it to the items of a
\* page after it has read the page.
FilterPasses(item, includeEvents) ==
    CASE includeEvents = "all"     -> TRUE
      [] includeEvents = "success" -> item.eventType = "SUCCESS"
      [] OTHER                     -> item.eventType # "SUCCESS"

\* The response carries a LastEvaluatedKey when the store stopped before the end
\* of the range, or at the Limit (it does not look further).
HasLastEvaluatedKey(evaluated, toEvaluate) ==
    evaluated < toEvaluate \/ evaluated = Limit

\* One Query: the store evaluates the first n keys still to evaluate, n at most
\* Limit (fewer when the page reaches the size limit of a response).
QueryResult(shortCode, timeRange, lastEvaluatedKey, includeEvents, n) ==
    LET keys == KeysToEvaluate(shortCode, timeRange, lastEvaluatedKey)
        order == Ascending({k[2] : k \in keys})
        page == [i \in 1..n |-> events[<<shortCode, order[i]>>]]
    IN  [Items |-> SelectSeq(page, LAMBDA item : FilterPasses(item, includeEvents)),
         Evaluated |-> n,
         LastEvaluatedKey |->
            IF n > 0 /\ HasLastEvaluatedKey(n, Cardinality(keys))
            THEN order[n] ELSE Undefined]

\* Math.round(x / y) for x >= 0 and y > 0: halves go up. The quotient of the
\* code is a double; for the totals reached here it rounds as the exact one does.
RoundDiv(x, y) == (2 * x + y) \div (2 * y)

\* total > 0 ? Math.round((clicks / total) * 100) : 0
Percentage(clicks, total) == IF total > 0 THEN RoundDiv(clicks * 100, total) ELSE 0

\* The keys of an object that counts the events by their key (keys[i] is the
\* key of the i-th event), in insertion order: the order in which the events
\* first show them.
RECURSIVE FirstSeen(_, _)
FirstSeen(keys, seen) ==
    IF keys = <<>> THEN <<>>
    ELSE LET key == Head(keys)
         IN  IF key \in seen THEN FirstSeen(Tail(keys), seen)
             ELSE <<key>> \o FirstSeen(Tail(keys), seen \cup {key})

\* .sort((a, b) => b.clicks - a.clicks): descending by clicks, stable.
RECURSIVE SortByClicks(_)
SortByClicks(entries) ==
    IF entries = <<>> THEN <<>>
    ELSE LET i == CHOOSE i \in 1..Len(entries) :
                    /\ \A j \in 1..Len(entries) : entries[j].clicks <= entries[i].clicks
                    /\ \A j \in 1..(i - 1) : entries[j].clicks < entries[i].clicks
         IN  <<entries[i]>> \o
             SortByClicks(SubSeq(entries, 1, i - 1) \o SubSeq(entries, i + 1, Len(entries)))

\* .slice(0, n)
Slice(seq, n) == SubSeq(seq, 1, IF Len(seq) < n THEN Len(seq) ELSE n)

\* calculateReferrerStats, calculateCountryStats and calculateBrowserStats share
\* their shape: count by key, percentage of the total, sort, top 10.
TopStats(eventKeys) ==
    LET keys == FirstSeen(eventKeys, {})
        total == Len(eventKeys)
        Clicks(key) == Len(SelectSeq(eventKeys, LAMBDA k : k = key))
        entries == [i \in 1..Len(keys) |->
                       [key |-> keys[i], clicks |-> Clicks(keys[i]),
                        percentage |-> Percentage(Clicks(keys[i]), total)]]
    IN  Slice(SortByClicks(entries), 10)

\* event.referer === 'direct' ? 'Direct' : new URL(event.referer).hostname
ReferrerOf(event) ==
    IF event.referer = Direct THEN <<"Direct", 0>> ELSE <<"host", event.referer[2]>>

\* event.country
CountryOf(event) == event.country

\* `${event.browser} ${event.browserVersion}`
BrowserOf(event) == <<event.browser, event.browserVersion>>

calculateReferrerStats(evs) == TopStats([i \in 1..Len(evs) |-> ReferrerOf(evs[i])])

calculateCountryStats(evs) == TopStats([i \in 1..Len(evs) |-> CountryOf(evs[i])])

calculateBrowserStats(evs) == TopStats([i \in 1..Len(evs) |-> BrowserOf(evs[i])])

\* generateTimeline: a bucket for every time = startTime, startTime + intervalMs,
\* ... below endTime; a bucket holds the events with time <= timestamp < time +
\* intervalMs.
IntervalMs(granularity) ==
    IF granularity = "hour" THEN 60 * 60 * 1000 ELSE 24 * 60 * 60 * 1000

InBucket(event, time, intervalMs) ==
    event.timestamp >= time /\ event.timestamp < time + intervalMs

generateTimeline(evs, timeRange, granularity) ==
    LET intervalMs == IntervalMs(granularity)
        span == timeRange.endTime - timeRange.startTime
        buckets == (span + intervalMs - 1) \div intervalMs
    IN  [b \in 1..buckets |->
            LET time == timeRange.startTime + (b - 1) * intervalMs
                bucketEvents == SelectSeq(evs, LAMBDA e : InBucket(e, time, intervalMs))
            IN  [timestamp |-> time,
                 clicks |-> Len(bucketEvents),
                 uniqueClicks |->
                    Cardinality({bucketEvents[i].ipHash : i \in 1..Len(bucketEvents)})]]

\* calculateDeviceStats
calculateDeviceStats(evs) ==
    LET Count(types) == Len(SelectSeq(evs, LAMBDA e : e.device \in types))
        known == {"mobile", "tablet", "desktop", "pc"}
    IN  [desktop |-> Count({"desktop", "pc"}), mobile |-> Count({"mobile"}),
         tablet |-> Count({"tablet"}),
         unknown |-> Len(SelectSeq(evs, LAMBDA e : e.device \notin known))]

\* firstClick and lastClick of a summary of no events: undefined.
NoClick == <<"undefined", 0>>

\* generateSummary, without the createdAt of the link (see CreatedAtValid): the
\* first and the last click, the peak bucket (the first of the highest), and the
\* mean clicks per bucket.
generateSummary(evs, timeline) ==
    LET stamps == {evs[i].timestamp : i \in 1..Len(evs)}
        sorted == Ascending(stamps)
        peak == IF timeline = <<>> THEN 0
                ELSE CHOOSE b \in 1..Len(timeline) :
                        /\ \A c \in 1..Len(timeline) : timeline[c].clicks <= timeline[b].clicks
                        /\ \A c \in 1..(b - 1) : timeline[c].clicks < timeline[b].clicks
    IN  [firstClick |-> IF evs # <<>> THEN toISOString(sorted[1]) ELSE NoClick,
         lastClick |-> IF evs # <<>> THEN toISOString(sorted[Len(sorted)]) ELSE NoClick,
         peakClicks |-> IF peak = 0 THEN 0 ELSE timeline[peak].clicks,
         avgClicksPerHour |-> IF timeline # <<>> THEN RoundDiv(Len(evs), Len(timeline))
                              ELSE 0]

\* processAnalyticsData: everything is computed from the SUCCESS events.
processAnalyticsData(evs, period, granularity, timeRange) ==
    LET successEvents == SelectSeq(evs, LAMBDA e : e.eventType = "SUCCESS")
        timeline == generateTimeline(successEvents, timeRange, granularity)
    IN  [totalClicks |-> Len(successEvents),
         uniqueClicks |->
            Cardinality({successEvents[i].ipHash : i \in 1..Len(successEvents)}),
         period |-> period,
         granularity |-> granularity,
         timeline |-> timeline,
         referrers |-> calculateReferrerStats(successEvents),
         countries |-> calculateCountryStats(successEvents),
         devices |-> calculateDeviceStats(successEvents),
         browsers |-> calculateBrowserStats(successEvents),
         summary |-> generateSummary(successEvents, timeline)]

\* new Date(linkMetadata.createdAt).toISOString() of generateSummary throws a
\* RangeError when the link item has no createdAt.
CreatedAtValid(linkMetadata) == "createdAt" \in DOMAIN linkMetadata

\* The request req leaves the analytics handler, as record r, with a response.
NoData == <<>>
AnalyticsAnswer(req, r, statusCode, data) ==
    /\ anActive' = anActive \ {req}
    /\ anDone' = anDone \cup
          {[r EXCEPT !.pc = "done"]
              @@ [response |-> [statusCode |-> statusCode, data |-> data],
                  answeredAt |-> clock]}

\* handler, up to the first store call: a request without a short code is
\* answered 400; the query parameters are those of AnalyticsQuerySchema.
AnalyticsReceive(shortCode, query) ==
    LET req == [id |-> anIssued + 1, shortCode |-> shortCode,
                period |-> query.period, granularity |-> query.granularity,
                includeEvents |-> query.includeEvents,
                pc |-> "probe", storeCalls |-> 0, queries |-> 0,
                failed |-> FALSE, linkState |-> "",
                timeRange |-> calculateTimeRange(query.period, 0),
                events |-> <<>>, lastEvaluatedKey |-> Undefined,
                evaluated |-> 0, emptyPages |-> 0,
                fetched |-> FALSE, metadata |-> "pending"]
    IN  /\ anIssued' = anIssued + 1
        /\ IF shortCode # NoCode
           THEN /\ anActive' = anActive \cup {req}
                /\ anDone' = anDone
           ELSE AnalyticsAnswer(req, req, 400, NoData)
        /\ UNCHANGED <<clock, ticks, rlVars, rlLog, apiVars, linkVars, rdVars, scan>>

\* Mutant of LinkExists: the probe says yes whatever the table holds.
LinkExistsAlways(shortCode, outcome) == TRUE

\* checkLinkExists: GetItem; a store error counts as "does not exist".
LinkExists(shortCode, outcome) ==
    outcome = "ok" /\ shortCode \in DOMAIN links

\* checkLinkExists and what follows it: 404 if the link does not exist, else the
\* time range, and fetchClickEvents and fetchLinkMetadata are started together.
AnalyticsProbe(req) ==
    /\ req.pc = "probe"
    /\ \E outcome \in StoreOutcomes :
        LET r == [req EXCEPT !.storeCalls = @ + 1,
                             !.failed = @ \/ outcome = "error",
                             !.linkState = LinkState(req.shortCode, clock)]
        IN  /\ CountFailure(outcome)
            /\ IF ~LinkExists(req.shortCode, outcome)
               THEN AnalyticsAnswer(req, r, 404, NoData)
               ELSE /\ anActive' = (anActive \ {req}) \cup
                          {[r EXCEPT !.pc = "fetch",
                                     !.timeRange = calculateTimeRange(req.period, clock)]}
                    /\ anDone' = anDone
    /\ UNCHANGED <<clock, ticks, rlVars, rlLog, apiVars, rdVars, anIssued, scan,
                   links, crActive, crDone, crIssued, bulkLog>>

\* Promise.all has both results: the report is computed and the request is
\* answered 200, or 500 when the computation throws.
AnalyticsSettle(req, r) ==
    IF r.fetched /\ r.metadata # "pending"
    THEN IF CreatedAtValid(links[r.shortCode])
         THEN AnalyticsAnswer(req, r, 200,
                 processAnalyticsData(r.events, r.period, r.granularity, r.timeRange))
         ELSE AnalyticsAnswer(req, r, 500, NoData)
    ELSE /\ anActive' = (anActive \ {req}) \cup {r}
         /\ anDone' = anDone

\* The page sizes the store may answer a Query with: the Limit, or fewer items.
PageSizes == {1, 2, Limit}

\* One iteration of the loop of fetchClickEvents: a Query, its items are
\* appended, and the loop goes on while there is a LastEvaluatedKey and no more
\* than 10000 events; a store error makes fetchClickEvents return [].
AnalyticsFetch(req) ==
    /\ req.pc = "fetch"
    /\ ~req.fetched
    /\ \E outcome \in StoreOutcomes, size \in PageSizes :
        LET toEvaluate == Cardinality(KeysToEvaluate(req.shortCode, req.timeRange,
                                                     req.lastEvaluatedKey))
            n == IF size < toEvaluate THEN size ELSE toEvaluate
            result == QueryResult(req.shortCode, req.timeRange, req.lastEvaluatedKey,
                                  req.includeEvents, n)
            fetchedEvents == req.events \o result.Items
            r == IF outcome = "error"
                 THEN [req EXCEPT !.storeCalls = @ + 1, !.queries = @ + 1,
                                  !.failed = TRUE, !.events = <<>>, !.fetched = TRUE]
                 ELSE [req EXCEPT
                          !.storeCalls = @ + 1, !.queries = @ + 1,
                          !.events = fetchedEvents,
                          !.lastEvaluatedKey = result.LastEvaluatedKey,
                          !.evaluated = @ + result.Evaluated,
                          !.emptyPages = @ + (IF result.Items = <<>>
                                                 /\ result.LastEvaluatedKey # Undefined
                                              THEN 1 ELSE 0),
                          !.fetched = ~FetchContinues(Len(fetchedEvents),
                                                      result.LastEvaluatedKey)]
        IN  /\ size <= toEvaluate \/ size = Limit
            /\ CountFailure(outcome)
            /\ AnalyticsSettle(req, r)
    /\ UNCHANGED <<clock, ticks, rlVars, rlLog, apiVars, rdVars, anIssued, scan,
                   links, crActive, crDone, crIssued, bulkLog>>

\* fetchLinkMetadata: GetItem; it throws on a store error or a missing item, and
\* the handler's catch answers 500.
AnalyticsMetadata(req) ==
    /\ req.pc = "fetch"
    /\ req.metadata = "pending"
    /\ \E outcome \in StoreOutcomes :
        LET r == [req EXCEPT !.storeCalls = @ + 1,
                             !.failed = @ \/ outcome = "error",
                             !.metadata = "fetched"]
        IN  /\ CountFailure(outcome)
            /\ IF outcome = "error" \/ req.shortCode \notin DOMAIN links
               THEN AnalyticsAnswer(req, r, 500, NoData)
               ELSE AnalyticsSettle(req, r)
    /\ UNCHANGED <<clock, ticks, rlVars, rlLog, apiVars, rdVars, anIssued, scan,
                   links, crActive, crDone, crIssued, bulkLog>>

\* fetchClickEvents over an event log too long to write down item by item: the
\* log of the short code in the time range is given by its size, a key by its
\* position in the log, the events collected by their number, and every Query
\* (no filter) evaluates pageSize items while that many are left.
ScanStart(logSize, pageSize) ==
    /\ \A run \in scan : run.done
    /\ scan' = {[logSize |-> logSize, pageSize |-> pageSize, length |-> 0,
                 lastEvaluatedKey |-> Undefined, queries |-> 0, done |-> FALSE]}
    /\ UNCHANGED <<clock, ticks, rlVars, rlLog, apiVars, linkVars, rdVars,
                   anActive, anDone, anIssued>>

ScanPage(run) ==
    /\ ~run.done
    /\ LET from == IF run.lastEvaluatedKey = Undefined THEN 0 ELSE run.lastEvaluatedKey
           toEvaluate == run.logSize - from
           n == IF run.pageSize < toEvaluate THEN run.pageSize ELSE toEvaluate
           lastEvaluatedKey == IF n > 0 /\ HasLastEvaluatedKey(n, toEvaluate)
                               THEN from + n ELSE Undefined
       IN  scan' = {[run EXCEPT !.length = @ + n,
                                !.lastEvaluatedKey = lastEvaluatedKey,
                                !.queries = @ + 1,
                                !.done = ~FetchContinues(run.length + n, lastEvaluatedKey)]}
    /\ UNCHANGED <<clock, ticks, rlVars, rlLog, apiVars, linkVars, rdVars,
                   anActive, anDone, anIssued>>

\* ------------------------------------------------------------ clock

\* Time passes by d milliseconds.
Advance(d) ==
    /\ clock' = clock + d
    /\ ticks' = ticks + 1

\* An hour passes: the length of a rate-limit window.
RLTick ==
    /\ ticks < MaxWindows
    /\ Advance(1000 * RATE_LIMITS["free"]["create"].window)
    /\ UNCHANGED <<rlVars, linkVars, rdVars, anVars, rlLog, apiVars>>

\* ------------------------------------------------------------ specifications

ClockInit ==
    /\ clock = 0
    /\ ticks = 0

LimiterInit ==
    /\ rlTable = EmptyTable
    /\ rlInflight = {}
    /\ rlResults = {}
    /\ rlIssued = 0
    /\ rlFailures = 0
    /\ rlLog = {}

LinksInit ==
    /\ links = EmptyTable
    /\ crActive = {}
    /\ crDone = {}
    /\ crIssued = 0
    /\ bulkLog = {}
    /\ stFailures = 0

RedirectInit ==
    /\ events = EmptyTable
    /\ rdActive = {}
    /\ rdDone = {}
    /\ rdTasks = {}
    /\ rdIssued = 0

AnalyticsInit ==
    /\ anActive = {}
    /\ anDone = {}
    /\ anIssued = 0
    /\ scan = {}

BulkApiInit ==
    /\ apiActive = {}
    /\ apiDone = {}
    /\ jobs = {}
    /\ queue = {}

RLInit ==
    /\ ClockInit /\ LimiterInit /\ LinksInit /\ RedirectInit /\ AnalyticsInit
    /\ BulkApiInit

\* SpecRL: up to MaxCalls concurrent checks (increment 1) of one free caller's
\* create quota inside one window, none of whose store calls fails.
Caller == hashIdentifier("203.0.113.7")

RLCheck ==
    /\ rlIssued < MaxCalls
    /\ RLSend(Caller, "create", "free", 1)

RLNext == RLCheck \/ RLReturn

SpecRL == RLInit /\ [][RLNext]_vars

\* SpecRLMix: a few checks of several actions, roles and increments, across
\* window boundaries.
MixInputs ==
    {[action |-> "create",    userRole |-> "free",    increment |-> 1],
     [action |-> "create",    userRole |-> "free",    increment |-> 5],
     [action |-> "create",    userRole |-> "premium", increment |-> 1],
     [action |-> "analytics", userRole |-> "admin",   increment |-> 5]}

RLMixCheck ==
    /\ rlIssued < MaxMixCalls
    /\ \E i \in MixInputs : RLSend(Caller, i.action, i.userRole, i.increment)

RLMixCheckFail ==
    /\ rlIssued < MaxMixCalls
    /\ \E i \in MixInputs : RLSendFail(Caller, i.action, i.userRole, i.increment)

RLMixNext == RLMixCheck \/ RLMixCheckFail \/ RLReturn \/ RLTick

SpecRLMix == RLInit /\ [][RLMixNext]_vars

\* SpecRLWindow: checks (increment 1 or 5, as the handlers and the bulk endpoint
\* make them), status reads and resets of one free caller's create quota, in
\* two consecutive windows; a store call of the limiter may fail.
RLWindowCheck ==
    /\ rlIssued < MaxWindowCalls
    /\ \E increment \in {1, 5} : RLSend(Caller, "create", "free", increment)

RLWindowStatus ==
    /\ Cardinality(rlLog) < MaxAdminCalls
    /\ RLStatus(Caller, "create", "free")

RLWindowReset ==
    /\ Cardinality(rlLog) < MaxAdminCalls
    /\ RLReset(Caller, "create")

RLWindowNext ==
    RLWindowCheck \/ RLWindowStatus \/ RLWindowReset \/ RLReturn \/ RLTick

SpecRLWindow == RLInit /\ [][RLWindowNext]_vars

\* SpecRLIdentity: one caller, known by its IP address, is checked through
\* withRateLimit, and its status is read and its counter reset with the same
\* address, inside one window.
CallerIp == "203.0.113.7"

RLIdentityCheck ==
    /\ rlIssued < MaxWindowCalls
    /\ withRateLimit(CallerIp, "create", "free", 1)

RLIdentityStatus ==
    /\ Cardinality(rlLog) < MaxAdminCalls
    /\ RLStatus(Raw(CallerIp), "create", "free")

RLIdentityReset ==
    /\ Cardinality(rlLog) < MaxAdminCalls
    /\ RLReset(Raw(CallerIp), "create")

RLIdentityNext ==
    RLIdentityCheck \/ RLIdentityStatus \/ RLIdentityReset \/ RLReturn

SpecRLIdentity == RLInit /\ [][RLIdentityNext]_vars

\* ------------------------------------------------------------ link creation

Shop == <<"s","h","o","p">>
ApiUpper == <<"A","P","I">>
ClientIp == "203.0.113.7"

CreateBody(url, customCode, expiresIn) ==
    [url |-> url, customCode |-> customCode, expiresIn |-> expiresIn]

CreateInputs ==
    {CreateBody(UrlA, NoCode, NoExpiry),
     CreateBody(UrlA, Shop, NoExpiry),
     CreateBody(UrlB, Shop, NoExpiry),
     CreateBody(UrlB, ApiUpper, NoExpiry)}

BulkMessages ==
    {[url |-> UrlA, customCode |-> Shop, userId |-> "user-1"]}

CreateRequest ==
    /\ crIssued < MaxCreates
    /\ Cardinality(crActive) < MaxConcurrent
    /\ \E body \in CreateInputs : CreateReceive(body, ClientIp)

CreateStep ==
    \E req \in crActive :
        \/ CreateLookup(req)
        \/ CreateProbeCustom(req)
        \/ CreateProbeGen(req)
        \/ CreatePut(req)

BulkWorker ==
    /\ Cardinality(bulkLog) < MaxBulk
    /\ \E message \in BulkMessages : BulkRecord(message)

LinksNext == CreateRequest \/ CreateStep \/ BulkWorker \/ RLTick

SpecLinks == RLInit /\ [][LinksNext]_vars

\* ------------------------------------------------------------ requests

Uncoded(r) == r.body.customCode = NoCode
Concurrent(r1, r2) == r1.id \notin r2.doneBefore /\ r2.id \notin r1.doneBefore

\* ------------------------------------------------------------ code generation

GenInputs ==
    {CreateBody(UrlA, NoCode, NoExpiry), CreateBody(UrlB, NoCode, NoExpiry)}

GenBulkMessages ==
    {[url |-> UrlB, customCode |-> NoCode, userId |-> "user-1"]}

GenCreate ==
    /\ crIssued < MaxGenCreates
    /\ Cardinality(crActive) < MaxConcurrent
    /\ \E body \in GenInputs : CreateReceive(body, ClientIp)

GenBulk ==
    /\ Cardinality(bulkLog) < MaxBulk
    /\ \E message \in GenBulkMessages : BulkRecord(message)

GenNext == GenCreate \/ CreateStep \/ GenBulk

SpecGen == RLInit /\ [][GenNext]_vars

\* A request that is being handled gets its next store call answered: the
\* handler runs until it returns.
SpecGenFair == SpecGen /\ WF_vars(CreateStep)

\* ------------------------------------------------------------ code generation: claims

\* The attempts of generateUniqueShortCode are counted as the code counts them.
AttemptsBounded(r) ==
    /\ r.attempt <= 5
    /\ r.pc = "probeGen" => (r.attempt < 5 /\ r.storeCalls = 1 + r.attempt)
    /\ r.pc = "put" => (r.attempt < 5 /\ r.storeCalls = 2 + r.attempt)
    /\ (r.pc = "done" /\ r.attempt = 5)
          => (r.response.statusCode = 500 /\ ~r.wrote /\ r.storeCalls = 6)
    /\ (r.pc = "done" /\ r.wrote) => (r.attempt < 5 /\ r.storeCalls = 3 + r.attempt)

\* C11: a create call without a custom code makes at most 5 code-generation
\* attempts, one more for each collision; the loop always terminates; and when
\* all 5 attempts collide the call ends in a server error without writing a link.
C11_AttemptsBoundedAndTerminate ==
    /\ [](\A r \in crActive \cup crDone : Uncoded(r) => AttemptsBounded(r))
    /\ <>[](crActive = {})

\* C11, its case: a call whose 5 attempts all collided with stored codes, no store
\* call failing, answered 500, and a call that wrote after a collision.
C11_Witness ==
    \E r \in crDone, w \in crDone :
        /\ Uncoded(r) /\ ~r.failed /\ r.attempt = 5 /\ r.response.statusCode = 500
        /\ Uncoded(w) /\ w.wrote /\ w.attempt >= 1

\* C12: a create call without a custom code never returns the conflict 409: a
\* failed conditional write of a generated code is a collision that is retried
\* within the attempt bound.
C12_GeneratedCodeNeverConflicts ==
    \A r \in crDone :
        (Uncoded(r) /\ ~r.failed)
        => /\ r.response.statusCode # 409
           /\ r.conditionFailed => (r.wrote \/ r.attempt = 5)

\* ------------------------------------------------------------ request paths

PathCreateInputs ==
    {CreateBody(UrlA, NoCode, NoExpiry), CreateBody(UrlB, Shop, NoExpiry),
     CreateBody(UrlBad, NoCode, NoExpiry)}

\* apiHandler of the bulk API up to the limiter's answer: a POST costs 5, a GET 1.
BulkApiCheck ==
    /\ rlIssued < MaxApiCalls
    /\ \E increment \in {5, 1} : RLSend(hashIdentifier(ClientIp), "create", "free", increment)

PathCreate ==
    /\ crIssued < MaxPathCreates
    /\ \E body \in PathCreateInputs : CreateReceive(body, ClientIp)

PathRedirect ==
    /\ rdIssued < MaxRedirects
    /\ \E shortCode \in {Shop, NoCode} : RedirectReceive(shortCode, ClientIp)

RedirectStep ==
    \E req \in rdActive : RedirectGet(req) \/ RedirectTrack(req)

RedirectSideEffect ==
    \E task \in rdTasks : RedirectTask(task)

PathsNext ==
    \/ BulkApiCheck
    \/ RLReturn
    \/ PathCreate
    \/ CreateStep
    \/ PathRedirect
    \/ RedirectStep
    \/ RedirectSideEffect

SpecPaths == RLInit /\ [][PathsNext]_vars

\* ------------------------------------------------------------ bulk API

\* event.requestContext.authorizer as the authorizer (lambda/auth) fills it from
\* a token's sub and role claims, and the context of a request that carries
\* none; a missing value is the empty string, falsy as undefined is.
NoAuthorizer == [userId |-> "", role |-> ""]
Authorizers ==
    {NoAuthorizer} \cup
    {[userId |-> "user-1", role |-> role] : role \in {"admin", "premium", "user"}}

\* generatePolicy of the authorizer, over the bulk API's methods and paths: an
\* admin may invoke everything, a premium user POST /bulk and every GET, a
\* basic user every GET; a request without authorizer context was not filtered.
Permits(authorizer, method, path) ==
    CASE authorizer.role = "admin" -> TRUE
      [] authorizer.role = "premium" ->
            (method = "POST" /\ path = "/bulk") \/ method = "GET"
      [] authorizer.role = "user" -> method = "GET"
      [] OTHER -> authorizer = NoAuthorizer

\* a || b
OrElse(a, b) == IF a = "" THEN b ELSE a

\* increment: method === 'POST' ? 5 : 1
BulkIncrement(method) == IF method = "POST" THEN 5 ELSE 1

\* The paths the bulk API is deployed under.
BulkPaths == {"/bulk", "/bulk/job"}

\* path.endsWith('/bulk') and path.includes('/bulk/'), over BulkPaths.
EndsWithBulk(path) == path = "/bulk"
IncludesBulkSlash(path) == path = "/bulk/job"

\* apiHandler up to the limiter's store call: the caller and its role are read
\* from the authorizer context, and withRateLimit hashes the identifier and
\* calls checkRateLimit.
BulkApiReceive(method, path, authorizer, clientIp) ==
    LET userId == OrElse(authorizer.userId, "anonymous")
        userRole == OrElse(authorizer.role, "free")
        identifier == IF userId # "anonymous" THEN userId ELSE clientIp
    IN  /\ checkRateLimit(hashIdentifier(identifier), "create", userRole,
                          BulkIncrement(method))
        /\ apiActive' = apiActive \cup
              {[seq |-> rlIssued + 1, method |-> method, path |-> path,
                userId |-> userId, userRole |-> userRole, pc |-> "limiter"]}
        /\ UNCHANGED <<clock, ticks, linkVars, rdVars, anVars, rlLog,
                       apiDone, jobs, queue>>

\* A response of the bulk API, with the function that returned it.
BulkApiAnswer(req, statusCode, by) ==
    /\ apiActive' = apiActive \ {req}
    /\ apiDone' = apiDone \cup {[req |-> req, statusCode |-> statusCode, by |-> by]}

\* handleBulkCreate up to its SendMessageBatch: the body is validated and the
\* job record is put; whatever raises is caught and answered 400.
BulkApiCreate(req) ==
    \E body \in {"valid", "invalid"}, outcome \in StoreOutcomes :
        IF body = "invalid"
        THEN /\ BulkApiAnswer(req, 400, "handleBulkCreate")
             /\ UNCHANGED <<jobs, stFailures>>
        ELSE IF outcome = "error"
        THEN /\ BulkApiAnswer(req, 400, "handleBulkCreate")
             /\ stFailures' = stFailures + 1
             /\ jobs' = jobs
        ELSE /\ jobs' = jobs \cup {[jobId |-> req.seq, userId |-> req.userId]}
             /\ apiActive' = (apiActive \ {req}) \cup {[req EXCEPT !.pc = "send"]}
             /\ UNCHANGED <<apiDone, stFailures>>

\* handleGetJob: one Query of the jobs table; users see their own jobs.
BulkApiGetJob(req) ==
    \E jobId \in 1..MaxBulkRequests, outcome \in StoreOutcomes :
        LET found == {job \in jobs : job.jobId = jobId}
        IN  /\ IF outcome = "error"
               THEN BulkApiAnswer(req, 500, "handleGetJob")
               ELSE IF found = {}
               THEN BulkApiAnswer(req, 404, "handleGetJob")
               ELSE IF \E job \in found : job.userId # req.userId /\ req.userId # "admin"
               THEN BulkApiAnswer(req, 403, "handleGetJob")
               ELSE BulkApiAnswer(req, 200, "handleGetJob")
            /\ stFailures' = IF outcome = "error" THEN stFailures + 1 ELSE stFailures
            /\ jobs' = jobs

\* apiHandler after the limiter's answer: a raise is caught and answered 500, a
\* rejection is answered 429, and the request is routed otherwise.
BulkApiRoute(req) ==
    /\ req.pc = "limiter"
    /\ \E r \in rlResults :
          /\ r.call.seq = req.seq
          /\ IF r.threw
             THEN /\ BulkApiAnswer(req, 500, "apiHandler")
                  /\ UNCHANGED <<jobs, stFailures>>
             ELSE IF ~r.result.allowed
             THEN /\ BulkApiAnswer(req, 429, "apiHandler")
                  /\ UNCHANGED <<jobs, stFailures>>
             ELSE IF req.method = "POST" /\ EndsWithBulk(req.path)
             THEN BulkApiCreate(req)
             ELSE IF req.method = "GET" /\ IncludesBulkSlash(req.path)
             THEN BulkApiGetJob(req)
             ELSE /\ BulkApiAnswer(req, 404, "apiHandler")
                  /\ UNCHANGED <<jobs, stFailures>>
    /\ UNCHANGED <<clock, ticks, rlVars, links, crActive, crDone, crIssued, bulkLog,
                   rdVars, anVars, rlLog, queue>>

\* handleBulkCreate from its SendMessageBatch on: the batch is sent and the job
\* is answered 202; a send that raises is caught and answered 400.
BulkApiSend(req) ==
    /\ req.pc = "send"
    /\ \E outcome \in StoreOutcomes :
          IF outcome = "error"
          THEN /\ BulkApiAnswer(req, 400, "handleBulkCreate")
               /\ stFailures' = stFailures + 1
               /\ queue' = queue
          ELSE /\ BulkApiAnswer(req, 202, "handleBulkCreate")
               /\ queue' = queue \cup {req.seq}
               /\ stFailures' = stFailures
    /\ UNCHANGED <<clock, ticks, rlVars, links, crActive, crDone, crIssued, bulkLog,
                   rdVars, anVars, rlLog, jobs>>

\* SpecBulkApi: up to MaxBulkRequests requests to the bulk API, at most
\* MaxConcurrent of them in progress, from one address and one signed-in user.
BulkApiRequest ==
    /\ rlIssued < MaxBulkRequests
    /\ Cardinality(apiActive) < MaxConcurrent
    /\ \E method \in {"POST", "GET"}, path \in BulkPaths, authorizer \in Authorizers :
          /\ Permits(authorizer, method, path)
          /\ BulkApiReceive(method, path, authorizer, ClientIp)

BulkApiStep ==
    \E req \in apiActive : BulkApiRoute(req) \/ BulkApiSend(req)

BulkApiNext ==
    \/ BulkApiRequest
    \/ RLReturn
    \/ BulkApiStep

SpecBulkApi == RLInit /\ [][BulkApiNext]_vars

\* ------------------------------------------------------------ resolving

\* expiresIn: the least value the schema admits, in seconds.
MinExpiresIn == 3600

ExpiryCreateInputs ==
    {CreateBody(UrlA, Shop, MinExpiresIn), CreateBody(UrlA, NoCode, NoExpiry),
     CreateBody(UrlA, NoCode, MinExpiresIn)}

ExpiryCreate ==
    /\ crIssued < MaxExpiryCreates
    /\ Cardinality(crActive) < MaxConcurrent
    /\ \E body \in ExpiryCreateInputs : CreateReceive(body, ClientIp)

ResolveCreate ==
    /\ crIssued < MaxPathCreates
    /\ CreateReceive(CreateBody(UrlA, Shop, MinExpiresIn), ClientIp)

\* Time passes: to the millisecond at which a link of the least lifetime made at
\* the start expires, or to the one after it.
ResolveTick ==
    /\ ticks < MaxWindows
    /\ \E d \in {1000 * MinExpiresIn, 1000 * MinExpiresIn + 1} : Advance(d)
    /\ UNCHANGED <<rlVars, linkVars, rdVars, anVars, rlLog, apiVars>>

Resolve ==
    /\ rdIssued < MaxResolves
    /\ RedirectReceive(Shop, ClientIp)

ResolveNext ==
    \/ ResolveCreate
    \/ CreateStep
    \/ ResolveTick
    \/ Resolve
    \/ RedirectStep
    \/ RedirectSideEffect

SpecResolve == RLInit /\ [][ResolveNext]_vars

ExpiryNext == ExpiryCreate \/ CreateStep \/ ResolveTick

SpecExpiry == RLInit /\ [][ExpiryNext]_vars

\* SpecLifetime: a link with a lifetime is created, time passes to and past its
\* expiresAt, and creates (of the handler and of the bulk worker) and resolves
\* go on around it. One create and one resolve at a time are in progress, and
\* a resolve's side effects reach the store before the next request arrives.
LifetimeCreateInputs ==
    {CreateBody(UrlA, Shop, MinExpiresIn), CreateBody(UrlB, Shop, NoExpiry)}

\* The side effects of the resolves answered so far have reached the store.
SideEffectsSettled == \A t \in rdTasks : t.state # "pending"

LifetimeCreate ==
    /\ crIssued < MaxExpiryCreates
    /\ crActive = {}
    /\ SideEffectsSettled
    /\ \E body \in LifetimeCreateInputs : CreateReceive(body, ClientIp)

LifetimeBulk ==
    /\ Cardinality(bulkLog) < MaxPathCreates
    /\ SideEffectsSettled
    /\ \E message \in BulkMessages : BulkRecord(message)

LifetimeResolve ==
    /\ rdIssued < MaxResolves
    /\ rdActive = {}
    /\ SideEffectsSettled
    /\ RedirectReceive(Shop, ClientIp)

\* Time passes between requests: first to the millisecond at which a link of
\* the least lifetime made at the start expires, or to the one after it, then
\* by the same lifetime again.
LifetimeTick ==
    /\ ticks < MaxLifetimeTicks
    /\ crActive = {} /\ rdActive = {} /\ SideEffectsSettled
    /\ \E d \in (IF ticks = 0
                 THEN {1000 * MinExpiresIn, 1000 * MinExpiresIn + 1}
                 ELSE {1000 * MinExpiresIn}) : Advance(d)
    /\ UNCHANGED <<rlVars, linkVars, rdVars, anVars, rlLog, apiVars>>

LifetimeNext ==
    \/ LifetimeCreate
    \/ CreateStep
    \/ LifetimeBulk
    \/ LifetimeTick
    \/ LifetimeResolve
    \/ RedirectStep
    \/ RedirectSideEffect

SpecLifetime == RLInit /\ [][LifetimeNext]_vars

\* ------------------------------------------------------------ aggregating

\* SpecAggregate: aggregate calls for a link 'shop' whose event log holds up to
\* MaxClicks SUCCESS events, the latest of the current millisecond and the others
\* Gap apart before it, each of another visitor, and up to MaxMisses NOT_FOUND
\* events from before the link was made; and for a short code that has no link.
Gap == 20 * 60 * 1000
AggregateAt == 24 * 60 * 60 * 1000
LinkMadeAt == AggregateAt - 12 * Gap

Visitor(i) ==
    [ip |-> i,
     referer |-> IF i = 1 THEN Direct ELSE RefererUrl(i, 0),
     browser |-> IF i % 2 = 0 THEN "Chrome" ELSE "Safari",
     browserVersion |-> "120",
     device |-> IF i % 3 = 0 THEN "mobile" ELSE "desktop"]

EventLog(clicks, misses) ==
    LET Click(i) == ClickEvent(Shop, "SUCCESS", AggregateAt - (i - 1) * Gap, Visitor(i))
        Miss(j) == ClickEvent(Shop, "NOT_FOUND", LinkMadeAt - j * Gap, Visitor(j))
        items == {Click(i) : i \in 1..clicks} \cup {Miss(j) : j \in 1..misses}
    IN  [k \in {<<e.shortCode, e.timestamp>> : e \in items} |->
            CHOOSE e \in items : <<e.shortCode, e.timestamp>> = k]

AggregateInit ==
    /\ clock = AggregateAt
    /\ ticks = 0
    /\ LimiterInit
    /\ links = PutIfAbsent(EmptyTable,
                  LinkItem(Shop, CreateBody(UrlA, Shop, NoExpiry), TRUE, LinkMadeAt))
    /\ crActive = {}
    /\ crDone = {}
    /\ crIssued = 0
    /\ bulkLog = {}
    /\ stFailures = 0
    /\ \E clicks \in 0..MaxClicks, misses \in 0..MaxMisses :
          events = EventLog(clicks, misses)
    /\ rdActive = {}
    /\ rdDone = {}
    /\ rdTasks = {}
    /\ rdIssued = 0
    /\ AnalyticsInit
    /\ BulkApiInit

AggregateQueries ==
    [period : {"1h", "24h"}, granularity : {"hour", "day"},
     includeEvents : {"all", "success", "failures"}]

Aggregate ==
    /\ anIssued < MaxAggregates
    /\ \E shortCode \in {Shop, ApiUpper, NoCode}, query \in AggregateQueries :
          AnalyticsReceive(shortCode, query)

AnalyticsStep ==
    \E req \in anActive :
        AnalyticsProbe(req) \/ AnalyticsFetch(req) \/ AnalyticsMetadata(req)

\* A millisecond passes.
AggregateTick ==
    /\ ticks < MaxWindows
    /\ Advance(1)
    /\ UNCHANGED <<rlVars, linkVars, rdVars, anVars, rlLog, apiVars>>

AggregateNext == Aggregate \/ AnalyticsStep \/ AggregateTick

SpecAggregate == AggregateInit /\ [][AggregateNext]_vars

\* SpecFetch: the requests of SpecAggregate while the answer to
\* fetchLinkMetadata is outstanding, so that fetchClickEvents runs its loop to
\* the end and Promise.all has not settled.
FetchStep ==
    \E req \in anActive : AnalyticsProbe(req) \/ AnalyticsFetch(req)

FetchNext == Aggregate \/ FetchStep

SpecFetch == AggregateInit /\ [][FetchNext]_vars

\* The store answers every Query (or fails it) in the end, and the runtime runs
\* a handler whose await has been answered.
SpecFetchFair == SpecFetch /\ WF_vars(FetchStep)

\* SpecScan: fetchClickEvents over logs of sizes around the 10000 events and
\* with pages of the Limit and of fewer items.
LogSizes == {0, 1000, 9999, 10000, 10001, 11000, 11001, 25000}
ScanPageSizes == {1, 250, Limit - 1, Limit}

Scan == \E logSize \in LogSizes, pageSize \in ScanPageSizes : ScanStart(logSize, pageSize)

ScanStep == \E run \in scan : ScanPage(run)

ScanNext == Scan \/ ScanStep

SpecScan == RLInit /\ [][ScanNext]_vars

\* ------------------------------------------------------------ request paths: claims

\* The request was received in a window in which the limiter holds no row for
\* its caller and its kind of request: no check was made on its behalf.
NeverConsulted(req, action) ==
    QuotaRow(req.sourceIp, action, req.receivedAt) \notin DOMAIN rlTable

\* C5: on the creation path and on the redirect path the rate limiter is consulted
\* before any other work: no request does store work without a check having been
\* made for its caller, and a create or resolve request whose caller has used up
\* the quota of the current window does no link lookup, no link write and no
\* click recording.
C5_LimiterConsultedFirst ==
    /\ \A r \in crActive \cup crDone :
          /\ r.overQuota => (r.storeCalls = 0 /\ ~r.wrote)
          /\ r.storeCalls > 0 => ~NeverConsulted(r, "create")
    /\ \A r \in rdActive \cup rdDone :
          /\ r.overQuota => (r.storeCalls = 0 /\ ~r.recorded)
          /\ r.storeCalls > 0 => ~NeverConsulted(r, "redirect")
    /\ \A task \in rdTasks :
          \A r \in rdDone : r.id = task.id => ~r.overQuota

\* ------------------------------------------------------------ link creation: claims


\* C6: for a valid URL submitted twice in sequence without a custom code, the
\* second create call returns created=false and the short code of the first
\* call, and writes no second link.
C6_SecondCreateReturnsExisting ==
    \A r1 \in crDone, r2 \in crDone :
        ( /\ r1.body.url = r2.body.url
          /\ Uncoded(r1) /\ Uncoded(r2)
          /\ r1.id \in r2.doneBefore
          /\ r1.response.created
          /\ ~r2.failed )
        => /\ r2.response.statusCode = 201
           /\ ~r2.response.created
           /\ r2.response.shortCode = r1.response.shortCode
           /\ ~r2.wrote

\* C7: when two create calls for the same valid URL without a custom code run
\* concurrently, at most one link for the URL is written: exactly one call
\* returns created=true and the other the same short code with created=false.
C7_ConcurrentCreatesOneLink ==
    \A r1 \in crDone, r2 \in crDone :
        ( /\ r1.id < r2.id
          /\ r1.body.url = r2.body.url
          /\ Uncoded(r1) /\ Uncoded(r2)
          /\ Concurrent(r1, r2)
          /\ ~r1.urlLinked /\ ~r2.urlLinked
          /\ ~r1.failed /\ ~r2.failed )
        => /\ ~(r1.wrote /\ r2.wrote)
           /\ r1.response.statusCode = 201 /\ r2.response.statusCode = 201
           /\ r1.response.created # r2.response.created
           /\ r1.response.shortCode = r2.response.shortCode

\* The records of the bulk worker that wrote, or tried to write, short code c.
BulkWrites(c) == {e \in bulkLog : e.shortCode = c}

\* The attributes of the link under short code c that a later step keeps.
LinkKept(c) ==
    /\ c \in DOMAIN links'
    /\ ("isCustom" \in DOMAIN links'[c]) = ("isCustom" \in DOMAIN links[c])
    /\ links'[c].originalUrl = links[c].originalUrl
    /\ links'[c].createdAt = links[c].createdAt
    /\ "isCustom" \in DOMAIN links[c] => links'[c].isCustom = links[c].isCustom

\* A write for a short code that held a link before the step is one that failed
\* its not-exists condition: the writers that report a write are those of codes
\* that were free.
WritesOnlyFree ==
    /\ \A r \in crDone' \ crDone : r.wrote => r.item.shortCode \notin DOMAIN links
    /\ \A e \in bulkLog' \ bulkLog : e.success => e.shortCode \notin DOMAIN links

\* C8: a short code is immutable once created: in every step of the create
\* handler and of the bulk worker, a link that is stored keeps its originalUrl,
\* createdAt and isCustom, and a write for a short code that holds a link fails
\* its not-exists condition instead of overwriting the link.
C8_ShortCodeImmutable ==
    [][(\A c \in DOMAIN links : LinkKept(c)) /\ WritesOnlyFree]_vars

\* C8, its case: a link stored by the handler under a custom code, for which a
\* later write of the handler and a later write of the bulk worker, for another
\* URL, both failed the condition.
C8_Witness ==
    \E r \in crDone, e \in bulkLog, w \in crDone :
        /\ w.wrote /\ w.item.shortCode = Shop
        /\ links[Shop] = w.item
        /\ r.conditionFailed /\ r.item.shortCode = Shop
        /\ r.item.originalUrl # w.item.originalUrl
        /\ e.shortCode = Shop /\ ~e.success /\ ~e.failed
        /\ e.message.url # w.item.originalUrl

\* C9: when two create calls for different URLs supply the same custom code and
\* run concurrently, exactly one of them stores the link and the other returns
\* the conflict 409; the losing call is not retried and stores nothing.
C9_CustomCodeRaceOneWinner ==
    \A r1 \in crDone, r2 \in crDone :
        ( /\ r1.id # r2.id
          /\ r1.body.url # r2.body.url
          /\ ~Uncoded(r1)
          /\ r1.body.customCode = r2.body.customCode
          /\ Concurrent(r1, r2)
          /\ r1.codeFree /\ r2.codeFree
          /\ ~r1.failed /\ ~r2.failed
          /\ BulkWrites(r1.body.customCode) = {} )
        => /\ r1.wrote # r2.wrote
           /\ ~r1.wrote => (r1.response.statusCode = 409 /\ r1.storeCalls <= 3)

\* C10: for a custom code that matches the reserved-word list case-insensitively,
\* create fails with the validation error 400 and no store write happens.
C10_ReservedCodeRejected ==
    \A r \in crDone :
        (~Uncoded(r) /\ ~NotReserved(r.body.customCode))
        => (r.response.statusCode = 400 /\ r.storeCalls = 0 /\ ~r.wrote)

\* C13: a create call that supplies a custom code is never deduplicated by URL:
\* it stores and returns the link under the supplied code with created=true, or
\* it fails with the conflict 409 because the code is taken; it never answers
\* otherwise on account of a link the URL already has.
C13_CustomCodeNotDeduplicated ==
    \A r \in crDone :
        (~Uncoded(r) /\ ~r.failed)
        => \/ /\ r.response.statusCode = 201
              /\ r.response.created
              /\ r.response.shortCode = r.body.customCode
              /\ r.wrote
           \/ /\ r.response.statusCode = 409
              /\ ~r.wrote

\* C14: the URL-hash lookup never returns a link whose expiresAt is before the
\* current time: a create call for a URL whose only link has expired creates a
\* new link, created=true, instead of matching the expired one.
C14_ExpiredLinkNotMatched ==
    \A r1 \in crDone, r2 \in crDone :
        ( /\ r1.wrote
          /\ "expiresAt" \in DOMAIN r1.item
          /\ r1.item.expiresAt < r2.receivedAt
          /\ r1.id \in r2.doneBefore
          /\ r2.body.url = r1.body.url
          /\ \A w \in crDone \cup crActive :
                (w.id # r1.id /\ w.id # r2.id) => w.body.url # r1.body.url
          /\ Uncoded(r2)
          /\ ~r2.failed )
        => /\ r2.response.statusCode = 201
           /\ r2.response.created
           /\ r2.wrote

\* C21: if a store call on create's path fails (the URL-hash lookup, the
\* code-existence probe, or the link write for a reason other than the not-exists
\* condition), create returns the server error 500 and stores no link: a store
\* failure never ends in a conflict and never in a written link.
C21_StoreFailureIsServerError ==
    \A r \in crDone :
        r.failed
        => /\ r.response.statusCode = 500
           /\ ~r.wrote

\* The creates received so far came one after the other, none with a custom code.
SequentialUncoded ==
    \A r1 \in crDone \cup crActive :
        /\ Uncoded(r1)
        /\ \A r2 \in crDone \cup crActive : r1.id # r2.id => ~Concurrent(r1, r2)

\* The links of a URL that have not expired at time now.
Unexpired(url, now) ==
    {c \in DOMAIN links : links[c].originalUrl = url /\ NotExpired(links[c], now)}

\* C31: after sequential creates without a custom code for one URL, with time
\* advancing past the links' expiresAt and no store call failing, at most one
\* unexpired link for the URL exists, and a create received and answered while
\* an unexpired link for the URL exists returns that link with created=false.
C31_OneUnexpiredLinkPerUrl ==
    (SequentialUncoded /\ stFailures = 0)
    => \A url \in ValidUrls :
          /\ Cardinality(Unexpired(url, clock)) <= 1
          /\ \A r \in crDone, c \in Unexpired(url, clock) :
                ( /\ r.body.url = url
                  /\ links[c].createdAt < r.receivedAt
                  /\ ~r.wrote )
                => /\ r.response.statusCode = 201
                   /\ ~r.response.created
                   /\ r.response.shortCode = c

\* ------------------------------------------------------------ resolving: claims

\* The resolves that found the link of their short code in the given state.
Found(state) == {r \in rdDone : r.linkState = state /\ ~r.lookupFailed}

\* The key of the click event a resolve writes.
EventKey(r) == <<r.shortCode, r.timestamp>>

SuccessEvents(c) ==
    {k \in DOMAIN events : k[1] = c /\ events[k].eventType = "SUCCESS"}

\* The resolves of short code c whose click recording has reached the store.
RecordedResolves(c) ==
    {t \in rdTasks : t.kind = "trackAnalytics" /\ t.state = "ok" /\ t.shortCode = c}

TasksOf(r, tasks) == {t \in tasks : t.id = r.id}

\* C15: resolving an existing, unexpired short code returns its originalUrl as
\* the redirect target, and each such resolve produces exactly one SUCCESS click
\* event for the short code, not zero and not two, once its click recording has
\* completed.
C15_OneSuccessEventPerResolve ==
    /\ \A r \in Found("live") :
          /\ r.response.statusCode = 301
          /\ r.response.Location = links[r.shortCode].originalUrl
    /\ \A c \in DOMAIN links :
          Cardinality(SuccessEvents(c)) = Cardinality(RecordedResolves(c))

C18_SideEffectFailureHarmless ==
    \A r \in Found("live") :
        /\ TasksOf(r, rdTasks) # {}
        /\ r.response.statusCode = 301
        /\ r.response.Location = links[r.shortCode].originalUrl

\* C18, its case: a resolve answered 301 whose click recording and click-counter
\* increment both failed, and another for which only one of them failed.
C18_Witness ==
    \E r \in Found("live"), q \in Found("live") :
        /\ r.response.statusCode = 301
        /\ \A t \in TasksOf(r, rdTasks) : t.state = "error"
        /\ {t.state : t \in TasksOf(q, rdTasks)} = {"ok", "error"}

C20_LookupFailureIsServerError ==
    \A r \in rdDone :
        r.lookupFailed
        => /\ r.response.statusCode = 500
           /\ r.response.Location = NoLocation
           /\ r.storeCalls = 1
           /\ ~r.recorded
           /\ TasksOf(r, rdTasks) = {}

\* C20, its case: a resolve of a stored, live link whose lookup failed.
C20_Witness ==
    \E r \in rdDone :
        /\ r.lookupFailed
        /\ r.linkState = "live"
        /\ r.response.statusCode = 500

\* C22: click events are append-only: once every resolve has been answered and
\* every click recording has completed, with no store call failed, the event log
\* holds one event per resolve; no write of the Click Recorder has taken the
\* place of an event written earlier, whatever timestamps the resolves carry.
C22_EventsAppendOnly ==
    ( /\ stFailures = 0
      /\ rdActive = {}
      /\ \A t \in rdTasks : t.state = "ok" )
    => Cardinality(DOMAIN events) = Cardinality(rdDone)

\* The time of the GetItem of an answered resolve: the stamp of its event.
ResolvedAt(r) ==
    IF r.timestamp # Undefined THEN r.timestamp
    ELSE IF \E t \in rdTasks : t.id = r.id
    THEN (CHOOSE t \in rdTasks : t.id = r.id).timestamp
    ELSE r.receivedAt

\* The resolves of short code c answered with its destination.
Redirected(c) == {r \in rdDone : r.shortCode = c /\ r.response.statusCode = 301}

\* C34: the click counter loses no update and never decreases: when the side
\* effects of all n resolves answered with the destination of a short code
\* have completed without store failure, the link's clickCount is n.
C34_ClickCountExact ==
    /\ [](\A c \in DOMAIN links :
             (\A r \in Redirected(c) :
                 /\ TasksOf(r, rdTasks) # {}
                 /\ \A t \in TasksOf(r, rdTasks) : t.state = "ok")
             => links[c].clickCount = Cardinality(Redirected(c)))
    /\ [][\A c \in DOMAIN links :
             /\ c \in DOMAIN links'
             /\ links'[c].clickCount >= links[c].clickCount]_vars

\* Two resolves of one short code were answered with the destination, their
\* side effects have all completed, and the link's clickCount is 2.
C34_Witness ==
    \E c \in DOMAIN links :
        /\ Cardinality(Redirected(c)) = 2
        /\ \A r \in Redirected(c) :
              /\ Cardinality(TasksOf(r, rdTasks)) = 2
              /\ \A t \in TasksOf(r, rdTasks) : t.state = "ok"
        /\ links[c].clickCount = 2

\* A step of the resolver: a request received, a store call of the handler, or
\* a side effect reaching the store.
ResolverStep == <<rdActive, rdDone, rdTasks, rdIssued>>' # <<rdActive, rdDone, rdTasks, rdIssued>>

\* The side effect that reaches the store in this step.
TaskDone(t) == t \in rdTasks /\ t.state = "pending" /\ t \notin rdTasks'

\* C35: a resolve changes no link's shortCode, originalUrl, expiresAt or
\* createdAt and creates no link item; it changes clickCount and lastClickAt
\* only of a link it found live, and a resolve that found no link or an expired
\* one leaves the links table as it was.
C35_ResolveFrame ==
    /\ [](\A r \in rdDone \cup rdActive :
             r.linkState \in {"absent", "expired"} => TasksOf(r, rdTasks) = {})
    /\ [][ResolverStep =>
             /\ DOMAIN links' = DOMAIN links
             /\ \A c \in DOMAIN links :
                   /\ \A f \in DOMAIN links[c] \ {"clickCount", "lastClickAt"} :
                         f \in DOMAIN links'[c] /\ links'[c][f] = links[c][f]
                   /\ DOMAIN links'[c] \subseteq DOMAIN links[c] \cup {"lastClickAt"}
                   /\ links'[c] # links[c]
                         => \E t \in rdTasks :
                               /\ TaskDone(t)
                               /\ t.kind = "updateClickCount"
                               /\ t.shortCode = c
                               /\ \E r \in rdDone : r.id = t.id /\ r.linkState = "live"]_vars

\* A resolve that found the link live has raised its clickCount and left its
\* other attributes as the create wrote them, and a resolve that found no link
\* or an expired one was answered after its event write.
C35_Witness ==
    /\ \E r \in rdDone, d \in crDone :
          /\ r.linkState = "live"
          /\ \E t \in TasksOf(r, rdTasks) : t.kind = "updateClickCount" /\ t.state = "ok"
          /\ d.wrote /\ d.item.shortCode = r.shortCode
          /\ links[r.shortCode].clickCount > 0
          /\ links[r.shortCode].lastClickAt = ResolvedAt(r)
          /\ \A f \in DOMAIN d.item \ {"clickCount"} : links[r.shortCode][f] = d.item[f]
    /\ \E r \in rdDone :
          /\ r.linkState \in {"absent", "expired"}
          /\ r.response.statusCode \in {404, 410}
          /\ r.storeCalls = 2

\* ------------------------------------------------------------ link lifetime: claims

\* In this step create request req makes its URL-hash lookup, and the store
\* answers it.
LookupStep(req) ==
    /\ req \in crActive
    /\ req.pc = "lookup"
    /\ req \notin crActive'
    /\ stFailures' = stFailures

\* The lookup of this step returned a link: the request is answered from it.
LookupReturned(req) == \E d \in crDone' : d.id = req.id

\* C32: the duplicate lookup of create and the resolver agree at every instant
\* on whether a link is expired: when a lookup finds the one link of its URL at
\* time t, it returns the link exactly when a resolve of the link at t returns
\* the destination.
C32_LookupAndResolveAgree ==
    [][\A req \in crActive :
          LookupStep(req) =>
             LET found == InIndex(createUrlHash(req.body.url))
             IN  \A c \in found :
                    Cardinality(found) = 1 =>
                       /\ LookupReturned(req) <=> ~Expired(links[c], clock)
                       /\ \A r \in rdDone :
                             ( /\ r.shortCode = c
                               /\ r.response.statusCode \in {301, 410}
                               /\ ResolvedAt(r) = clock )
                             => (LookupReturned(req) <=> r.response.statusCode = 301)]_vars

C23_AbsentCodeShortCircuits ==
    \A r \in anDone :
        r.linkState = "absent"
        => /\ r.response.statusCode = 404
           /\ r.storeCalls = 1
           /\ r.queries = 0

\* C23, its case: an aggregate call for a short code without a link, whose probe
\* succeeded, answered 404.
C23_Witness ==
    \E r \in anDone :
        /\ r.linkState = "absent"
        /\ ~r.failed
        /\ r.shortCode \notin DOMAIN links
        /\ r.response.statusCode = 404

\* The events of a short code in the time range of an aggregate call.
InWindow(r) ==
    {k \in DOMAIN events :
        /\ k[1] = r.shortCode
        /\ k[2] >= r.timeRange.startTime
        /\ k[2] <= r.timeRange.endTime}

\* The event types a filter selects.
Included(filter) ==
    CASE filter = "all"     -> {"SUCCESS", "NOT_FOUND", "EXPIRED"}
      [] filter = "success" -> {"SUCCESS"}
      [] OTHER              -> {"NOT_FOUND", "EXPIRED"}

\* An aggregate call answered with a report, none of whose store calls failed.
Reports == {r \in anDone : r.response.statusCode = 200 /\ ~r.failed}

\* C25: the filter selects the event types the aggregation counts: with 'all'
\* every event in the window, with 'success' the SUCCESS events, with 'failures'
\* the NOT_FOUND and EXPIRED events; and it is applied to the aggregation, not to
\* the pagination: the pages cover every event of the window.
C25_FilterSelectsEventTypes ==
    \A r \in Reports :
        /\ r.response.data.totalClicks =
              Cardinality({k \in InWindow(r) :
                              events[k].eventType \in Included(r.includeEvents)})
        /\ r.evaluated = Cardinality(InWindow(r))

\* C24: a single aggregate call collects at most 10,000 events from the event
\* log, whatever the size of the log and the size of the pages up to the Limit of
\* 1000: the event list of fetchClickEvents never has more than 10,000 entries.
C24_FetchCapped ==
    \A run \in scan : run.length <= 10000

\* The sum of the click counts of a timeline's buckets.
RECURSIVE SumClicks(_)
SumClicks(timeline) ==
    IF timeline = <<>> THEN 0 ELSE Head(timeline).clicks + SumClicks(Tail(timeline))

\* C26: for every set of events the scan returns for a window, the click counts
\* of the timeline's buckets sum to the report's totalClicks: every counted event
\* falls in exactly one bucket.
C26_TimelineSumsToTotal ==
    \A r \in Reports :
        SumClicks(r.response.data.timeline) = r.response.data.totalClicks

\* The sum of the percentages of the groups of a breakdown.
RECURSIVE SumPercentages(_)
SumPercentages(stats) ==
    IF stats = <<>> THEN 0 ELSE Head(stats).percentage + SumPercentages(Tail(stats))

\* The number of groups the counted events fall in, by a dimension.
KeyOf(event, dimension) ==
    CASE dimension = "referrer" -> ReferrerOf(event)
      [] dimension = "country"  -> CountryOf(event)
      [] OTHER                  -> BrowserOf(event)

Distinct(r, dimension) ==
    Cardinality({KeyOf(events[k], dimension) :
                    k \in {k \in InWindow(r) : events[k].eventType = "SUCCESS"}})

\* The percentages of a breakdown sum to at most 100, and to 100 when there are
\* events and they fall in at most 10 groups.
PercentagesAddUp(r, stats, dimension) ==
    /\ SumPercentages(stats) <= 100
    /\ (r.response.data.totalClicks > 0 /\ Distinct(r, dimension) <= 10)
          => SumPercentages(stats) = 100

\* C27: the percentages of the groups returned in a referrer, country or browser
\* breakdown sum to at most 100, and to exactly 100 when the events have at most
\* 10 distinct values of that dimension.
C27_PercentagesSumTo100 ==
    \A r \in Reports :
        /\ PercentagesAddUp(r, r.response.data.referrers, "referrer")
        /\ PercentagesAddUp(r, r.response.data.countries, "country")
        /\ PercentagesAddUp(r, r.response.data.browsers, "browser")

\* ------------------------------------------------------------ rate limiter: claims

AllCalls == rlInflight \cup {r.call : r \in rlResults}

Quota(call) == RATE_LIMITS[call.userRole][call.action].requests

FreeCreateQuota == RATE_LIMITS["free"]["create"].requests

\* C1: on a fresh window with quota N and no store failure, each of the first N
\* concurrent checks (increment 1) returns allowed = TRUE, and the check that
\* follows them (made when all N have returned) returns allowed = FALSE.
C1_QuotaThenOneRejected ==
    rlFailures = 0 =>
        \A r \in rlResults :
            /\ r.call.seq <= FreeCreateQuota => r.result.allowed
            /\ (r.call.seq = FreeCreateQuota + 1 /\ r.call.afterAll)
                  => ~r.result.allowed

\* N checks that overlapped have all returned allowed, and the one made after
\* them has returned rejected.
C1_Witness ==
    /\ rlFailures = 0
    /\ \A n \in 1..FreeCreateQuota :
          \E r \in rlResults :
              r.call.seq = n /\ r.result.allowed /\ (n > 1 => ~r.call.afterAll)
    /\ \E r \in rlResults :
          r.call.seq = FreeCreateQuota + 1 /\ r.call.afterAll /\ ~r.result.allowed

AllowedOn(pk, userRole) ==
    {r \in rlResults : r.call.pk = pk /\ r.call.userRole = userRole /\ r.result.allowed}

\* C2: with no store failure, the number of checks (increment 1) of one identity,
\* action and role in one window that return allowed = TRUE never exceeds the quota.
C2_AllowedWithinQuota ==
    rlFailures = 0 =>
        \A r \in rlResults :
            Cardinality(AllowedOn(r.call.pk, r.call.userRole)) <= Quota(r.call)

\* The quota is used up by overlapping checks and a further overlapping check is
\* rejected.
C2_Witness ==
    /\ rlFailures = 0
    /\ \E r \in rlResults :
          /\ ~r.result.allowed /\ ~r.call.afterAll
          /\ Cardinality(AllowedOn(r.call.pk, r.call.userRole)) = Quota(r.call)

RECURSIVE SumIncrements(_)
SumIncrements(calls) ==
    IF calls = {} THEN 0
    ELSE LET c == CHOOSE x \in calls : TRUE
         IN  c.increment + SumIncrements(calls \ {c})

CallsOn(pk) == {c \in AllCalls : c.pk = pk}

\* C3: with no store failure, the requestCount of every counter equals the sum of
\* the increments of all checks made on it, allowed or rejected, returned or not.
C3_NoLostIncrement ==
    rlFailures = 0 =>
        \A c \in AllCalls :
            /\ c.pk \in DOMAIN rlTable
            /\ rlTable[c.pk].requestCount = SumIncrements(CallsOn(c.pk))

\* Overlapping checks with different increments on one counter, one of them rejected.
C3_Witness ==
    /\ rlFailures = 0
    /\ \E r \in rlResults :
          /\ ~r.result.allowed /\ ~r.call.afterAll
          /\ \E c \in CallsOn(r.call.pk) : c.increment # r.call.increment
          /\ rlTable[r.call.pk].requestCount = SumIncrements(CallsOn(r.call.pk))

\* C4: a check whose store call fails returns (it does not throw) allowed = TRUE,
\* remaining = the configured quota of (role, action), resetTime = the end of the
\* window its time falls in, and no retryAfter.
C4_FailOpen ==
    \A r \in rlResults :
        r.call.failed =>
            LET limit == RATE_LIMITS[r.call.userRole][r.call.action]
            IN  /\ ~r.threw
                /\ r.result.allowed
                /\ r.result.remaining = limit.requests
                /\ r.result.resetTime % limit.window = 0
                /\ r.result.resetTime > r.call.now
                /\ r.result.resetTime - r.call.now <= limit.window
                /\ r.result.retryAfter = Undefined

\* A failed check, in a later window, of a counter that other checks have raised:
\* remaining is the whole quota, not what the counter leaves of it.
C4_Witness ==
    \E r \in rlResults :
        /\ r.call.failed
        /\ r.call.now > 0
        /\ r.call.pk \in DOMAIN rlTable
        /\ rlTable[r.call.pk].requestCount > 1
        /\ r.result.allowed
        /\ r.result.remaining = Quota(r.call)

\* ------------------------------------------------------------ status and reset: claims

\* The entry a getRateLimitStatus or resetRateLimit step adds to rlLog.
NewEntry == CHOOSE e \in rlLog' \ rlLog : TRUE

StatusStep == rlLog' # rlLog /\ NewEntry.op = "status"

ResetStep == rlLog' # rlLog /\ NewEntry.op = "reset"

CheckStep == rlIssued' # rlIssued

\* The requestCount the table holds under pk (none counts as 0).
StoredCount(pk) == IF pk \in DOMAIN rlTable THEN rlTable[pk].requestCount ELSE 0

\* C28 as stated: getStatus changes no counter and returns allowed = TRUE exactly
\* when the stored requestCount is strictly below the quota, with
\* remaining = max(0, quota - requestCount).
C28_StatusReadsStoredCount ==
    [][StatusStep =>
          /\ rlTable' = rlTable
          /\ NewEntry.result.allowed = (StoredCount(NewEntry.pk) < Quota(NewEntry))
          /\ NewEntry.result.remaining
                = Max(0, Quota(NewEntry) - StoredCount(NewEntry.pk))]_vars

\* C28 amended: getStatus changes no counter; when its read succeeds it returns
\* allowed = TRUE exactly when the stored requestCount is strictly below the
\* quota, with remaining = max(0, quota - requestCount); when its read fails it
\* returns allowed = TRUE and remaining = quota.
C28_StatusReadsOrFailsOpen ==
    [][StatusStep =>
          /\ rlTable' = rlTable
          /\ ~NewEntry.failed =>
                /\ NewEntry.result.allowed
                      = (StoredCount(NewEntry.pk) < Quota(NewEntry))
                /\ NewEntry.result.remaining
                      = Max(0, Quota(NewEntry) - StoredCount(NewEntry.pk))
          /\ NewEntry.failed =>
                /\ NewEntry.result.allowed
                /\ NewEntry.result.remaining = Quota(NewEntry)]_vars

\* A status read that succeeded on a counter standing exactly at the quota has
\* answered allowed = FALSE, remaining = 0, while a check that brought the
\* counter there was allowed.
C28_Witness ==
    \E e \in rlLog :
        /\ e.op = "status"
        /\ ~e.failed
        /\ ~e.result.allowed
        /\ e.result.remaining = 0
        /\ \E r \in rlResults :
              /\ r.call.pk = e.pk
              /\ ~r.call.failed
              /\ r.call.Attributes.requestCount = Quota(e)
              /\ r.result.allowed
        /\ StoredCount(e.pk) = Quota(e)

SameCaller(c1, c2) == c1.identifier = c2.identifier /\ c1.action = c2.action

WindowOf(call) == WindowStart(call.now, RATE_LIMITS[call.userRole][call.action])

\* No check of the same identity and action was made earlier in call's window.
FirstInWindow(call) ==
    \A c \in AllCalls :
        (SameCaller(c, call) /\ WindowOf(c) = WindowOf(call)) => c.seq >= call.seq

\* C29: two checks of one identity and action use the same counter exactly
\* when their times fall in the same window; the first check in a window is
\* allowed whatever the earlier windows' counters hold; and a check changes no
\* counter of another window.
C29_FixedWindows ==
    /\ [](\A c1, c2 \in AllCalls :
             SameCaller(c1, c2) => ((c1.pk = c2.pk) <=> (WindowOf(c1) = WindowOf(c2))))
    /\ [](\A r \in rlResults : FirstInWindow(r.call) => r.result.allowed)
    /\ [][CheckStep =>
             \A pk \in DOMAIN rlTable :
                 pk[3] # HourlyWindowStart(NowSeconds(clock))
                    => (pk \in DOMAIN rlTable' /\ rlTable'[pk] = rlTable[pk])]_vars

\* The previous window ended above the quota with a check rejected, and the
\* first check of the next window was counted from zero and allowed, the
\* previous window's counter still standing.
C29_Witness ==
    \E r1, r2 \in rlResults :
        /\ SameCaller(r1.call, r2.call)
        /\ WindowOf(r1.call) < WindowOf(r2.call)
        /\ ~r1.call.failed /\ ~r1.result.allowed
        /\ ~r2.call.failed /\ r2.result.allowed
        /\ FirstInWindow(r2.call)
        /\ r2.call.Attributes.requestCount = r2.call.increment
        /\ StoredCount(r1.call.pk) > Quota(r1.call)

\* C30 as stated: no limiter operation (check, getStatus, resetRateLimit)
\* decreases the requestCount of a counter.
C30_CountNeverDecreases ==
    [][\A pk \in DOMAIN rlTable :
          /\ pk \in DOMAIN rlTable'
          /\ rlTable'[pk].requestCount >= rlTable[pk].requestCount]_vars

\* C30 amended: check and getStatus never decrease a requestCount;
\* resetRateLimit sets the counter of its identity and action for the current
\* hourly window to 0 and decreases no other counter.
C30_OnlyResetDecreases ==
    [][/\ \A pk \in DOMAIN rlTable :
             /\ pk \in DOMAIN rlTable'
             /\ \/ rlTable'[pk].requestCount >= rlTable[pk].requestCount
                \/ ResetStep /\ pk = NewEntry.pk
       /\ (ResetStep /\ ~NewEntry.failed)
             => /\ NewEntry.pk[3] = HourlyWindowStart(NowSeconds(clock))
                /\ rlTable'[NewEntry.pk].requestCount = 0]_vars

\* A reset has succeeded on a counter that a check had raised above zero, and
\* the counter now stands below what that check read, while the counter of
\* another window still holds its count.
C30_Witness ==
    \E e \in rlLog :
        /\ e.op = "reset"
        /\ ~e.failed
        /\ \E c \in AllCalls :
              /\ c.pk = e.pk
              /\ ~c.failed
              /\ StoredCount(c.pk) < c.Attributes.requestCount
        /\ \E c \in AllCalls :
              /\ c.pk # e.pk
              /\ ~c.failed
              /\ StoredCount(c.pk) = c.Attributes.requestCount

\* The checks of the window of time now that were allowed.
AllowedIn(now) ==
    {r \in rlResults :
        r.result.allowed /\ HourlyWindowStart(r.call.now) = HourlyWindowStart(now)}

\* C36: for one raw identity, action and window, getRateLimitStatus reads and
\* resetRateLimit resets the counter that withRateLimit increments: after k
\* allowed withRateLimit calls (all returned, no store call failed, no reset)
\* getRateLimitStatus reports remaining = quota - k.
C36_StatusSeesChecks ==
    [][rlLog' # rlLog =>
          /\ \A c \in AllCalls :
                HourlyWindowStart(c.now) = HourlyWindowStart(NewEntry.now)
                   => c.pk = NewEntry.pk
          /\ ( /\ NewEntry.op = "status"
               /\ rlFailures' = 0
               /\ rlInflight = {}
               /\ \A e \in rlLog : e.op # "reset" )
             => NewEntry.result.remaining
                   = Quota(NewEntry) - Cardinality(AllowedIn(NewEntry.now))]_vars

\* ------------------------------------------------------------ bulk API: claims

\* C37: the rate-limit check returns a RateLimitResult and never raises,
\* whatever role the authorizer placed in the request context (admin, premium,
\* user, or none), so that no bulk request is answered 500 by apiHandler's
\* catch on account of its caller's role.
C37_CheckNeverRaises ==
    /\ \A r \in rlResults : ~r.threw
    /\ \A d \in apiDone : ~(d.statusCode = 500 /\ d.by = "apiHandler")

\* The bulk requests received so far.
BulkRequests == apiActive \cup {d.req : d \in apiDone}

\* The limiter calls whose UpdateItem the store applied.
AppliedCalls ==
    {c \in rlInflight : ~c.failed} \cup
    {r.call : r \in {x \in rlResults : ~x.threw /\ ~x.call.failed}}

\* What the requests whose limiter call is under pk should have added: 5 for a
\* POST, 1 for any other.
ClaimedCharges(pk) ==
    {[seq |-> req.seq, increment |-> IF req.method = "POST" THEN 5 ELSE 1] :
        req \in {x \in BulkRequests :
                    \E c \in AppliedCalls : c.seq = x.seq /\ c.pk = pk}}

\* C39: every bulk request adds to its caller's create counter, 5 for a POST
\* and 1 for any other, in one atomic add (the counter is the sum of what the
\* requests added); a request the limiter rejects is answered 429, writes no
\* job record and sends no queue message; and a request is allowed exactly
\* when the count after its add is at most the quota of its role.
C39_BulkCharge ==
    /\ \A req \in BulkRequests :
          \E c \in AppliedCalls :
             /\ c.seq = req.seq
             /\ c.action = "create"
             /\ c.increment = IF req.method = "POST" THEN 5 ELSE 1
             /\ StoredCount(c.pk) = SumIncrements(ClaimedCharges(c.pk))
    /\ \A r \in rlResults :
          (~r.threw /\ ~r.result.allowed) =>
             /\ \A d \in apiDone : d.req.seq = r.call.seq => d.statusCode = 429
             /\ \A req \in apiActive : req.seq = r.call.seq => req.pc = "limiter"
             /\ \A job \in jobs : job.jobId # r.call.seq
             /\ r.call.seq \notin queue
    /\ \A r \in rlResults :
          /\ ~r.threw
          /\ r.result.allowed <=>
                /\ ~r.call.failed
                /\ r.call.Attributes.requestCount
                      <= RATE_LIMITS[r.call.userRole]["create"].requests

\* ------------------------------------------------------------ pagination: claims

\* C38: the pagination of fetchClickEvents terminates for every finite event
\* log: each Query either ends the loop (no continuation token, more than 10000
\* events, or a store error) or leaves a continuation token later in the log
\* than the one it started from, also when its filtered page has no items; and
\* a fetch that has started is over in the end.
C38_PaginationTerminates ==
    /\ [][\A req \in anActive : \A r \in anActive' \cup anDone' :
             (r.id = req.id /\ r.queries = req.queries + 1) =>
                \/ r.fetched
                \/ /\ r.lastEvaluatedKey # Undefined
                   /\ req.lastEvaluatedKey = Undefined
                         \/ r.lastEvaluatedKey > req.lastEvaluatedKey]_vars
    /\ (\E req \in anActive : req.pc = "fetch" /\ ~req.fetched)
          ~> (\A req \in anActive : req.fetched)

\* A fetch went on after a filtered page with no items and a continuation
\* token, and came to its end with the events of later pages.
C38_Witness ==
    \E req \in anActive :
        /\ req.emptyPages >= 1
        /\ req.queries >= 3
        /\ req.fetched
        /\ ~req.failed
        /\ req.events # <<>>

====
